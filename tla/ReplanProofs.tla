---------------------------- MODULE ReplanProofs ----------------------------
(***************************************************************************)
(* Proofs about what the planner computes, for any tables, any queries and *)
(* any DAGs, with or without cycles: the promotion of diamonds, Kahn's     *)
(* algorithm, the steps of a plan and the tables after each of them, and   *)
(* what the modules that execute plans assume of them (PlanPromises).      *)
(***************************************************************************)
EXTENDS Replan, PlanPromises, SequenceTheorems, FiniteSetTheorems, TLAPS

-----------------------------------------------------------------------------
(* Induction over the natural numbers, for a set instead of a predicate:   *)
(* the library's theorems take operators, which the provers cannot         *)
(* instantiate.                                                            *)
LEMMA Least ==
  ASSUME NEW T \in SUBSET Nat, T # {}
  PROVE  \E m \in T : \A k \in T : m <= k
<1> DEFINE R == {p \in Nat \X Nat : p[1] < p[2]}
<1>1. IsWellFoundedOn(R, Nat)
  BY NatLessThanWellFounded, IsWellFoundedOnSubrelation DEF OpToRel
<1>2. PICK m \in T : \A k \in T : <<k, m>> \notin R
  BY <1>1, WFMin
<1>3. ASSUME NEW k \in T, k < m PROVE <<k, m>> \in R
  BY <1>3
<1> HIDE DEF R
<1>4. \A k \in T : ~(k < m)
  BY <1>2, <1>3
<1> QED
  BY <1>4

(* Induction from 0, by the least number outside a set.                    *)
LEMMA Induction ==
  ASSUME NEW P \in SUBSET Nat, 0 \in P, \A n \in P : n + 1 \in P
  PROVE  P = Nat
<1>1. ASSUME Nat \ P # {} PROVE FALSE
  <2>1. PICK m \in Nat \ P : \A k \in Nat \ P : m <= k
    BY <1>1, Least
  <2>2. m # 0 /\ m - 1 \in Nat
    BY <2>1
  <2>3. m - 1 \in P
    BY <2>1, <2>2
  <2> QED
    BY <2>1, <2>2, <2>3
<1> QED
  BY <1>1

(* The first n values of the function that starts with x and follows F.    *)
Starts(X, F, x, n, a) ==
  /\ a \in [0 .. n -> X] /\ a[0] = x
  /\ \A i \in 0 .. n - 1 : a[i + 1] = F[<<i + 1, a[i]>>]

(* Two such beginnings agree as far as both go.                            *)
LEMMA StartsAgree ==
  ASSUME NEW X, NEW F, NEW x, NEW m \in Nat, NEW n \in Nat, m <= n,
         NEW a, NEW b, Starts(X, F, x, m, a), Starts(X, F, x, n, b)
  PROVE  \A i \in 0 .. m : a[i] = b[i]
<1> DEFINE P == {i \in Nat : i <= m => a[i] = b[i]}
<1>1. 0 \in P
  BY DEF Starts
<1>2. ASSUME NEW i \in P PROVE i + 1 \in P
  <2>1. SUFFICES ASSUME i + 1 <= m PROVE a[i + 1] = b[i + 1]
    OBVIOUS
  <2>2. i \in 0 .. m - 1 /\ i \in 0 .. n - 1 /\ a[i] = b[i]
    BY <2>1
  <2> HIDE DEF P
  <2> QED
    BY <2>2 DEF Starts
<1>3. P \in SUBSET Nat
  OBVIOUS
<1> HIDE DEF P
<1>4. P = Nat
  BY <1>1, <1>2, <1>3, Induction
<1> QED
  BY <1>4 DEF P

(* A recursive function over Nat exists, whatever it is told to do with    *)
(* its last value.                                                         *)
Follows(X, F, x, g) ==
  /\ g \in [Nat -> X] /\ g[0] = x
  /\ \A n \in Nat : g[n + 1] = F[<<n + 1, g[n]>>]

(* A function defined by recursion over the naturals obeys its equations.  *)
LEMMA Recursion ==
  ASSUME NEW X, NEW x \in X, NEW F \in [Nat \X X -> X]
  PROVE  \E g : Follows(X, F, x, g)
<1> DEFINE P == {n \in Nat : \E a : Starts(X, F, x, n, a)}
<1>1. 0 \in P
  <2> DEFINE a == [i \in 0 .. 0 |-> x]
  <2>1. a \in [0 .. 0 -> X] /\ a[0] = x
    OBVIOUS
  <2> HIDE DEF a
  <2>2. Starts(X, F, x, 0, a)
    BY <2>1 DEF Starts
  <2> QED
    BY <2>2
<1>2. ASSUME NEW n \in P PROVE n + 1 \in P
  <2>1. PICK a : Starts(X, F, x, n, a)
    OBVIOUS
  <2> DEFINE b == [i \in 0 .. n + 1 |-> IF i = n + 1 THEN F[<<n + 1, a[n]>>] ELSE a[i]]
  <2>2. a[n] \in X /\ F[<<n + 1, a[n]>>] \in X
    BY <2>1 DEF Starts
  <2>3. b \in [0 .. n + 1 -> X] /\ b[0] = x
    BY <2>1, <2>2 DEF Starts
  <2>4. ASSUME NEW i \in 0 .. n PROVE b[i + 1] = F[<<i + 1, b[i]>>]
    <3>1. CASE i = n
      <4>1. b[n + 1] = F[<<n + 1, a[n]>>] /\ b[n] = a[n]
        OBVIOUS
      <4> HIDE DEF b
      <4> QED
        BY <3>1, <4>1
    <3>2. CASE i # n
      BY <2>1, <3>2 DEF Starts
    <3> QED
      BY <3>1, <3>2
  <2>5. (n + 1) - 1 = n
    OBVIOUS
  <2> HIDE DEF b
  <2>6. Starts(X, F, x, n + 1, b)
    BY <2>3, <2>4, <2>5 DEF Starts
  <2> QED
    BY <2>6
<1>3. P \in SUBSET Nat
  OBVIOUS
<1>4. \A n \in Nat : \E a : Starts(X, F, x, n, a)
  <2> HIDE DEF P
  <2>1. P = Nat
    BY <1>1, <1>2, <1>3, Induction
  <2> QED
    BY <2>1 DEF P
<1> DEFINE A(n) == CHOOSE a : Starts(X, F, x, n, a)
           g == [n \in Nat |-> A(n)[n]]
<1>5. \A n \in Nat : Starts(X, F, x, n, A(n))
  BY <1>4
<1> HIDE DEF A
<1>6. g \in [Nat -> X] /\ g[0] = x
  BY <1>5 DEF Starts
<1>7. ASSUME NEW n \in Nat PROVE g[n + 1] = F[<<n + 1, g[n]>>]
  <2>1. Starts(X, F, x, n, A(n)) /\ Starts(X, F, x, n + 1, A(n + 1))
    BY <1>5
  <2>2. A(n)[n] = A(n + 1)[n]
    BY <2>1, StartsAgree
  <2>3. A(n + 1)[n + 1] = F[<<n + 1, A(n + 1)[n]>>]
    BY <2>1 DEF Starts
  <2> QED
    BY <2>2, <2>3
<1> HIDE DEF g
<1>8. Follows(X, F, x, g)
  BY <1>6, <1>7 DEF Follows
<1> QED
  BY <1>8

-----------------------------------------------------------------------------
(* The classes of changes, in the order of their disruption.               *)
Class == {"Free", "InPlace", "Rebuild", "BlueGreen"}

(* Every change has one of the four classes.                               *)
LEMMA ClassOfDelta ==
  ASSUME NEW d, NEW l, NEW t PROVE ClassifyDelta(d, l, t) \in Class
<1>1. ASSUME NEW x, NEW y PROVE ClassifyQueryChange(x, y) \in Class
  BY DEF ClassifyQueryChange, Class
<1>2. ASSUME NEW x, NEW y
      PROVE  ClassifyChange(x, y) \in {"AlterQuery", "Unchanged", "AlterSchedule",
                                       "AlterRefreshMode", "AlterCdcMode", "AlterMetadata"}
  BY DEF ClassifyChange
<1>3. DeltaKind(d, l, t) \in {"Create", "Drop", "AlterQuery", "Unchanged", "AlterSchedule",
                              "AlterRefreshMode", "AlterCdcMode", "AlterMetadata"}
  BY <1>2 DEF DeltaKind
<1> QED
  BY <1>1, <1>3 DEF ClassifyDelta, Class

(* The ranks of the classes are numbers that tell them apart.              *)
LEMMA RankOfClass ==
  \A c \in Class : ClassRank(c) \in 0 .. 3 /\ ClassRank(c) \in Nat
  BY DEF Class, ClassRank

(* The highest class of a group is that of a member, and above the others. *)
LEMMA HighestOfGroup ==
  ASSUME NEW C, NEW classes \in [C -> Class], NEW group \in SUBSET C, group # {}
  PROVE  /\ HighestClass(classes, group) \in Class
         /\ \E u \in group : HighestClass(classes, group) = classes[u]
         /\ \A t \in group : ClassRank(classes[t]) <= ClassRank(HighestClass(classes, group))
<1> DEFINE Highest(c) == /\ c \in {classes[t] : t \in group}
                         /\ \A t \in group : ClassRank(classes[t]) <= ClassRank(c)
<1>1. \A t \in group : classes[t] \in Class /\ ClassRank(classes[t]) \in 0 .. 3
  BY RankOfClass
<1>2. ASSUME NEW k \in 0 .. 3, \E t \in group : ClassRank(classes[t]) = k,
             \A t \in group : ClassRank(classes[t]) <= k
      PROVE  \E c : Highest(c)
  <2>1. PICK t \in group : ClassRank(classes[t]) = k
    BY <1>2
  <2>2. Highest(classes[t])
    BY <1>2, <2>1
  <2> QED
    BY <2>2
<1>3. \E k \in 0 .. 3 : /\ \E t \in group : ClassRank(classes[t]) = k
                        /\ \A t \in group : ClassRank(classes[t]) <= k
  <2> DEFINE Has(k) == \E t \in group : ClassRank(classes[t]) = k
  <2>1. CASE Has(3)
    BY <1>1, <2>1
  <2>2. CASE Has(2) /\ ~Has(3)
    <3>1. \A t \in group : ClassRank(classes[t]) <= 2
      BY <1>1, <2>2
    <3> QED
      BY <2>2, <3>1
  <2>3. CASE Has(1) /\ ~Has(2) /\ ~Has(3)
    <3>1. \A t \in group : ClassRank(classes[t]) <= 1
      BY <1>1, <2>3
    <3> QED
      BY <2>3, <3>1
  <2>4. CASE ~Has(1) /\ ~Has(2) /\ ~Has(3)
    <3>1. \A t \in group : ClassRank(classes[t]) = 0
      BY <1>1, <2>4
    <3> QED
      BY <3>1
  <2> QED
    BY <2>1, <2>2, <2>3, <2>4
<1>4. \E c : Highest(c)
  BY <1>2, <1>3
<1>5. Highest(HighestClass(classes, group))
  BY <1>4 DEF HighestClass
<1> QED
  BY <1>1, <1>5

(* Promoting a group lowers no class and lifts the group to its highest.   *)
LEMMA PromotionLifts ==
  ASSUME NEW C, NEW classes \in [C -> Class], NEW group \in SUBSET C, group # {}
  PROVE  /\ PromoteGroup(classes, group) \in [C -> Class]
         /\ \A t \in C :
              ClassRank(classes[t]) <= ClassRank(PromoteGroup(classes, group)[t])
         /\ \A t, u \in group :
              ClassRank(classes[u]) <= ClassRank(PromoteGroup(classes, group)[t])
         /\ \A t \in C : \E u \in C : PromoteGroup(classes, group)[t] = classes[u]
<1> DEFINE promoted == PromoteGroup(classes, group)
<1>1. promoted = [t \in C |-> IF t \in group THEN HighestClass(classes, group) ELSE classes[t]]
  BY DEF PromoteGroup
<1>2. \A t \in C : classes[t] \in Class /\ ClassRank(classes[t]) <= ClassRank(classes[t])
  BY RankOfClass
<1> HIDE DEF promoted
<1> QED
  BY <1>1, <1>2, HighestOfGroup DEF promoted

-----------------------------------------------------------------------------
(* There are finitely many tables, since the files are listed.             *)
LEMMA TableIsFinite == IsFiniteSet(Table) /\ Cardinality(Table) \in Nat
<1>1. FileOrder \in Seq(Table) /\ Table = {FileOrder[i] : i \in DOMAIN FileOrder}
  BY OrderAssumption DEF ListsTables
<1>2. Len(FileOrder) \in Nat /\ DOMAIN FileOrder = 1 .. Len(FileOrder)
      /\ FileOrder \in [1 .. Len(FileOrder) -> Table]
  BY <1>1
<1>3. FileOrder \in Surjection(1 .. Len(FileOrder), Table)
  BY <1>1, <1>2 DEF Surjection
<1>4. IsFiniteSet(1 .. Len(FileOrder))
  BY <1>2, FS_Interval
<1> QED
  BY <1>3, <1>4, FS_Surjection, FS_CardinalityType

(* A group holds its node, and changed tables only.                        *)
LEMMA GroupIsOfChanged ==
  ASSUME NEW d, NEW l, NEW node \in Changed(d, l)
  PROVE  /\ DiamondGroup(d, l, node) \subseteq Changed(d, l)
         /\ node \in DiamondGroup(d, l, node)
<1> DEFINE C == Changed(d, l)
           Grown(S) == S \cup UNION {ChangedParents(d, l, t) : t \in S}
           grow == CHOOSE grow : grow = [n \in Nat |-> IF n = 0 THEN {node} ELSE
             grow[n - 1] \cup (UNION {ChangedParents(d, l, t) : t \in grow[n - 1]})]
           F == [p \in Nat \X SUBSET C |-> Grown(p[2])]
<1>1. \A S \in SUBSET C : Grown(S) \in SUBSET C
  BY DEF ChangedParents
<1>2. F \in [Nat \X SUBSET C -> SUBSET C] /\ {node} \in SUBSET C
  <2> HIDE DEF C, Grown
  <2> QED
    BY <1>1 DEF C
<1>3. PICK g \in [Nat -> SUBSET C] :
        g[0] = {node} /\ \A n \in Nat : g[n + 1] = F[<<n + 1, g[n]>>]
  <2> DEFINE X == SUBSET C
             x == {node}
  <2>1. F \in [Nat \X X -> X] /\ x \in X
    BY <1>2
  <2> HIDE DEF F, X, x
  <2>2. PICK g : Follows(X, F, x, g)
    BY <2>1, Recursion
  <2> QED
    BY <2>2 DEF X, x, Follows
<1>4. ASSUME NEW n \in Nat \ {0} PROVE g[n] = Grown(g[n - 1])
  <2>1. n - 1 \in Nat /\ (n - 1) + 1 = n
    OBVIOUS
  <2>2. <<n, g[n - 1]>> \in Nat \X SUBSET C
    BY <2>1
  <2> HIDE DEF C, Grown
  <2> QED
    BY <1>3, <2>1, <2>2
<1>5. g = [n \in Nat |-> IF n = 0 THEN {node} ELSE Grown(g[n - 1])]
  <2> HIDE DEF C, Grown
  <2> QED
    BY <1>3, <1>4
<1>6. grow = [n \in Nat |-> IF n = 0 THEN {node} ELSE Grown(grow[n - 1])]
  BY <1>5
<1> HIDE DEF grow
<1> DEFINE P == {n \in Nat : node \in grow[n] /\ grow[n] \subseteq C}
<1>7. P = Nat
  <2>1. 0 \in P
    BY <1>6
  <2>2. ASSUME NEW n \in P PROVE n + 1 \in P
    <3>1. grow[n + 1] = Grown(grow[n])
      BY <1>6
    <3>2. grow[n] \in SUBSET C /\ node \in grow[n]
      BY <2>2
    <3>3. grow[n + 1] \in SUBSET C /\ node \in grow[n + 1]
      BY <1>1, <3>1, <3>2
    <3> QED
      BY <3>3
  <2> HIDE DEF P
  <2>3. P \in SUBSET Nat
    BY DEF P
  <2> QED
    BY <2>1, <2>2, <2>3, Induction
<1>8. DiamondGroup(d, l, node) = grow[Cardinality(Table)]
  BY DEF DiamondGroup, grow
<1> QED
  BY <1>7, <1>8, TableIsFinite

(* By induction over the groups: no class gets lower, so what one          *)
(* promotion has lifted together the later ones, in whatever order, leave  *)
(* at least as high; and each class is the own class of some change.       *)
LEMMA PromotionReaches ==
  ASSUME NEW d, NEW l, NEW order \in Seq(ConvergenceNodes(d, l))
  PROVE  /\ Promoted(d, l, order) \in [Changed(d, l) -> Class]
         /\ \A t \in Changed(d, l) :
              /\ ClassRank(Promoted(d, l, order)[t]) >= ClassRank(ClassifyDelta(d, l, t))
              /\ \E u \in Changed(d, l) :
                   Promoted(d, l, order)[t] = ClassifyDelta(d, l, u)
         /\ \A i \in 1 .. Len(order) : \A t, u \in DiamondGroup(d, l, order[i]) :
              ClassRank(Promoted(d, l, order)[t]) >= ClassRank(ClassifyDelta(d, l, u))
<1> DEFINE C == Changed(d, l)
           N == Len(order)
           initial == [t \in C |-> ClassifyDelta(d, l, t)]
           Group(n) == DiamondGroup(d, l, order[n])
           after == CHOOSE after : after = [n \in 0 .. Len(order) |->
                      IF n = 0 THEN [t \in Changed(d, l) |-> ClassifyDelta(d, l, t)]
                      ELSE PromoteGroup(after[n - 1], DiamondGroup(d, l, order[n]))]
           X == [C -> Class]
           StepOf(n, classes) == IF n \in 1 .. N THEN PromoteGroup(classes, Group(n)) ELSE classes
           F == [p \in Nat \X X |-> StepOf(p[1], p[2])]
<1>0. N \in Nat
  OBVIOUS
<1>1. ASSUME NEW n \in 1 .. N PROVE Group(n) \in SUBSET C /\ Group(n) # {}
  <2>1. order[n] \in C
    BY DEF ConvergenceNodes
  <2> QED
    BY <2>1, GroupIsOfChanged
<1>2. initial \in X
  BY ClassOfDelta
<1>3. \A n \in Nat, classes \in X : StepOf(n, classes) \in X
  <2> SUFFICES ASSUME NEW n \in 1 .. N, NEW classes \in X PROVE PromoteGroup(classes, Group(n)) \in X
    OBVIOUS
  <2> HIDE DEF C, Group
  <2> QED
    BY <1>1, PromotionLifts
<1>4. F \in [Nat \X X -> X]
  <2> HIDE DEF X, StepOf
  <2> QED
    BY <1>3
<1>5. PICK g \in [Nat -> X] : g[0] = initial /\ \A n \in Nat : g[n + 1] = F[<<n + 1, g[n]>>]
  <2> HIDE DEF X, F, initial
  <2>1. PICK g : Follows(X, F, initial, g)
    BY <1>2, <1>4, Recursion
  <2> QED
    BY <2>1 DEF Follows
<1>6. ASSUME NEW n \in 1 .. N PROVE g[n] = PromoteGroup(g[n - 1], Group(n))
  <2>1. n \in Nat /\ n - 1 \in Nat /\ (n - 1) + 1 = n
    BY <1>0
  <2>2. <<n, g[n - 1]>> \in Nat \X X
    BY <1>5, <2>1
  <2>3. g[n] = StepOf(n, g[n - 1])
    <3> HIDE DEF X, StepOf
    <3> QED
      BY <1>5, <2>1, <2>2
  <2> QED
    BY <2>3
<1>7. after = [n \in 0 .. N |-> IF n = 0 THEN initial ELSE PromoteGroup(after[n - 1], Group(n))]
  <2> DEFINE h == [n \in 0 .. N |-> g[n]]
  <2>1. \A n \in 0 .. N : h[n] = IF n = 0 THEN initial ELSE PromoteGroup(h[n - 1], Group(n))
    <3>1. h[0] = initial
      BY <1>0, <1>5
    <3>2. ASSUME NEW n \in 1 .. N PROVE h[n] = PromoteGroup(h[n - 1], Group(n))
      <4>1. n \in 0 .. N /\ n - 1 \in 0 .. N
        BY <1>0
      <4> HIDE DEF Group
      <4> QED
        BY <1>6, <4>1
    <3>3. \A n \in 0 .. N : n = 0 \/ (n # 0 /\ n \in 1 .. N)
      BY <1>0
    <3> HIDE DEF h, initial, Group
    <3> QED
      BY <3>1, <3>2, <3>3
  <2>2. h = [n \in 0 .. N |-> IF n = 0 THEN initial ELSE PromoteGroup(h[n - 1], Group(n))]
    <3>1. h = [n \in 0 .. N |-> h[n]]
      OBVIOUS
    <3> HIDE DEF h, initial, Group
    <3> QED
      BY <2>1, <3>1
  <2> HIDE DEF h
  <2> QED
    BY <2>2
<1> HIDE DEF after
<1> DEFINE Lifted(n) == /\ after[n] \in X
                        /\ \A t \in C : ClassRank(initial[t]) <= ClassRank(after[n][t])
                        /\ \A m \in 1 .. n : \A t, u \in Group(m) :
                             ClassRank(initial[u]) <= ClassRank(after[n][t])
                        /\ \A t \in C : \E u \in C : after[n][t] = initial[u]
           P == {n \in Nat : n <= N => Lifted(n)}
<1>8. 0 \in P
  <2>1. after[0] = initial
    BY <1>0, <1>7
  <2>2. \A t \in C : initial[t] \in Class /\ ClassRank(initial[t]) <= ClassRank(initial[t])
    BY ClassOfDelta, RankOfClass
  <2> HIDE DEF initial, X, C, Group
  <2> QED
    BY <1>2, <2>1, <2>2
<1>9. ASSUME NEW n \in Nat, n <= N => Lifted(n), n + 1 <= N PROVE Lifted(n + 1)
  <2>1. n \in Nat /\ n + 1 \in 1 .. N /\ (n + 1) - 1 = n /\ Lifted(n)
    <3> HIDE DEF Lifted
    <3> QED
      BY <1>0, <1>9
  <2>2. after[n + 1] = PromoteGroup(after[n], Group(n + 1))
    <3> HIDE DEF Group, initial, Lifted
    <3> QED
      BY <1>0, <1>7, <2>1
  <2>3. /\ after[n + 1] \in X
        /\ \A t \in C : ClassRank(after[n][t]) <= ClassRank(after[n + 1][t])
        /\ \A t, u \in Group(n + 1) : ClassRank(after[n][u]) <= ClassRank(after[n + 1][t])
        /\ \A t \in C : \E u \in C : after[n + 1][t] = after[n][u]
    <3>1. after[n] \in [C -> Class] /\ Group(n + 1) \in SUBSET C /\ Group(n + 1) # {}
      BY <1>1, <2>1
    <3> DEFINE classes == after[n]
               group == Group(n + 1)
    <3>2. classes \in [C -> Class] /\ group \in SUBSET C /\ group # {}
      BY <3>1
    <3>3. after[n + 1] = PromoteGroup(classes, group)
      BY <2>2
    <3> HIDE DEF C, classes, group
    <3>4. /\ PromoteGroup(classes, group) \in [C -> Class]
          /\ \A t \in C :
               ClassRank(classes[t]) <= ClassRank(PromoteGroup(classes, group)[t])
          /\ \A t, u \in group :
               ClassRank(classes[u]) <= ClassRank(PromoteGroup(classes, group)[t])
          /\ \A t \in C : \E u \in C : PromoteGroup(classes, group)[t] = classes[u]
      BY <3>2, PromotionLifts
    <3> HIDE DEF Group
    <3> QED
      BY <3>3, <3>4 DEF classes, group
  <2>4. \A t \in C : /\ ClassRank(initial[t]) \in Nat /\ ClassRank(after[n][t]) \in Nat
                     /\ ClassRank(after[n + 1][t]) \in Nat
    <3>1. \A c \in Class : ClassRank(c) \in Nat
      BY RankOfClass
    <3> HIDE DEF C, initial
    <3> QED
      BY <1>2, <2>1, <2>3, <3>1
  <2>5. \A t \in C : ClassRank(initial[t]) <= ClassRank(after[n + 1][t])
    <3> HIDE DEF C, initial, Group, X
    <3> QED
      BY <2>1, <2>3, <2>4
  <2>6. ASSUME NEW m \in 1 .. n + 1, NEW t \in Group(m), NEW u \in Group(m)
        PROVE  ClassRank(initial[u]) <= ClassRank(after[n + 1][t])
    <3>1. m \in 1 .. N /\ (m \in 1 .. n \/ m = n + 1)
      BY <1>0, <2>1
    <3>2. t \in C /\ u \in C
      BY <1>1, <3>1
    <3>3. /\ \A k \in 1 .. n : \A a, b \in Group(k) :
                ClassRank(initial[b]) <= ClassRank(after[n][a])
          /\ \A a \in C : ClassRank(initial[a]) <= ClassRank(after[n][a])
      <4> HIDE DEF C, initial, Group, X
      <4> QED
        BY <2>1
    <3>4. /\ \A a \in C : ClassRank(after[n][a]) <= ClassRank(after[n + 1][a])
          /\ \A a, b \in Group(n + 1) : ClassRank(after[n][b]) <= ClassRank(after[n + 1][a])
      <4> HIDE DEF C, initial, Group, X
      <4> QED
        BY <2>3
    <3> HIDE DEF C, initial, Group, X
    <3> QED
      BY <2>4, <3>1, <3>2, <3>3, <3>4
  <2>7. \A t \in C : \E u \in C : after[n + 1][t] = initial[u]
    <3> HIDE DEF C, initial, Group, X
    <3> QED
      BY <2>1, <2>3
  <2> QED
    BY <2>3, <2>5, <2>6, <2>7
<1> HIDE DEF Lifted
<1>10. P = Nat
  <2>1. P \in SUBSET Nat /\ \A n \in P : n + 1 \in P
    BY <1>0, <1>9
  <2> HIDE DEF P
  <2> QED
    BY <1>8, <2>1, Induction
<1>11. Lifted(N)
  BY <1>0, <1>10
<1> USE DEF Lifted
<1>12. Promoted(d, l, order) = after[N]
  BY DEF Promoted, after
<1>13. \A t \in C : initial[t] = ClassifyDelta(d, l, t)
  OBVIOUS
<1>14. \A n \in 1 .. N : Group(n) \subseteq C
  BY <1>1
<1>15. \A t \in C : /\ ClassRank(initial[t]) \in Nat /\ ClassRank(after[N][t]) \in Nat
  <2> HIDE DEF C, initial, Group
  <2> QED
    BY <1>2, <1>11, RankOfClass
<1> HIDE DEF initial
<1>16. \A t \in C : /\ ClassRank(after[N][t]) >= ClassRank(ClassifyDelta(d, l, t))
                     /\ \E u \in C : after[N][t] = ClassifyDelta(d, l, u)
  <2> HIDE DEF C, Group, X
  <2> QED
    BY <1>11, <1>13, <1>15
<1>17. ASSUME NEW i \in 1 .. N, NEW t \in Group(i), NEW u \in Group(i)
       PROVE  ClassRank(after[N][t]) >= ClassRank(ClassifyDelta(d, l, u))
  <2>1. t \in C /\ u \in C
    BY <1>14
  <2> HIDE DEF C, Group, X
  <2> QED
    BY <1>11, <1>13, <1>15, <2>1
<1> QED
  BY <1>11, <1>12, <1>16, <1>17

(* An order of a set lists all of it.                                      *)
LEMMA OrderLists ==
  ASSUME NEW S, IsFiniteSet(S), NEW order \in SetToSeqs(S)
  PROVE  order \in Seq(S) /\ \A x \in S : \E i \in 1 .. Len(order) : order[i] = x
<1> DEFINE D == 1 .. Cardinality(S)
<1>1. Cardinality(S) \in Nat
  BY FS_CardinalityType
<1>2. order \in [D -> S] /\ \A i, j \in D : i # j => order[i] # order[j]
  BY DEF SetToSeqs
<1>3. order \in Seq(S)
  BY <1>1, <1>2 DEF Seq
<1>4. DOMAIN order = D /\ DOMAIN order = 1 .. Len(order)
  BY <1>2, <1>3
<1>5. order \in Injection(D, S)
  BY <1>2 DEF Injection, IsInjective
<1>6. IsFiniteSet(D) /\ Cardinality(D) = Cardinality(S)
  BY <1>1, FS_Interval
<1>7. order \in Surjection(D, S)
  BY <1>5, <1>6, FS_Injection
<1>8. \A x \in S : \E i \in D : order[i] = x
  BY <1>7 DEF Surjection
<1> QED
  BY <1>3, <1>4, <1>8

(* Diamonds (plan.rs:394): where two changed branches meet, the node and   *)
(* all its changed ancestors are migrated at least as disruptively as the  *)
(* most disruptive change among them, in whatever order the HashMap yields *)
(* the diamonds and however they overlap.                                  *)
THEOREM DiamondsMoveTogether == Spec => []DiamondsArePromoted
<1>1. DiamondsArePromoted
  <2>1. IsFiniteSet(ConvergenceNodes(desired, live))
    <3>1. ConvergenceNodes(desired, live) \subseteq Table
      BY DEF ConvergenceNodes, Changed
    <3> QED
      BY <3>1, TableIsFinite, FS_Subset
  <2> SUFFICES ASSUME NEW order \in Orders, NEW n \in ConvergenceNodes(desired, live),
                      NEW t \in DiamondGroup(desired, live, n),
                      NEW u \in DiamondGroup(desired, live, n)
               PROVE  ClassRank(Promoted(desired, live, order)[t])
                        >= ClassRank(ClassifyDelta(desired, live, u))
    BY DEF DiamondsArePromoted
  <2>2. PICK i \in 1 .. Len(order) : order[i] = n
    BY <2>1, OrderLists DEF Orders
  <2>3. order \in Seq(ConvergenceNodes(desired, live))
    BY <2>1, OrderLists DEF Orders
  <2> QED
    BY <2>2, <2>3, PromotionReaches
<1> QED
  BY <1>1, PTL

(* The same up to a bound.                                                 *)
LEMMA InductionTo ==
  ASSUME NEW N \in Nat, NEW P, 0 \in P, \A n \in 1 .. N : n - 1 \in P => n \in P
  PROVE  0 .. N \subseteq P
<1> DEFINE Q == {n \in Nat : n <= N => n \in P}
<1>1. 0 \in Q
  OBVIOUS
<1>2. ASSUME NEW n \in Q PROVE n + 1 \in Q
  <2>1. SUFFICES ASSUME n + 1 <= N PROVE n + 1 \in P
    OBVIOUS
  <2>2. n + 1 \in 1 .. N /\ (n + 1) - 1 = n /\ n \in P
    BY <2>1
  <2> QED
    BY <2>2
<1>3. Q \in SUBSET Nat
  OBVIOUS
<1> HIDE DEF Q
<1>4. Q = Nat
  BY <1>1, <1>2, <1>3, Induction
<1> QED
  BY <1>4 DEF Q

(* A recursive function over 0 .. N exists too.                            *)
FollowsTo(X, F, x, N, g) ==
  /\ g \in [0 .. N -> X] /\ g[0] = x
  /\ \A n \in 0 .. N : n # 0 => n - 1 \in 0 .. N /\ g[n] = F[<<n, g[n - 1]>>]

(* A function defined by recursion up to a bound obeys its equations.      *)
LEMMA RecursionTo ==
  ASSUME NEW X, NEW x \in X, NEW N \in Nat, NEW F \in [(1 .. N) \X X -> X]
  PROVE  \E g : FollowsTo(X, F, x, N, g)
<1> DEFINE G == [p \in Nat \X X |-> IF p[1] \in 1 .. N THEN F[<<p[1], p[2]>>] ELSE p[2]]
<1>1. G \in [Nat \X X -> X]
  OBVIOUS
<1>2. PICK f : Follows(X, G, x, f)
  <2> HIDE DEF G
  <2> QED
    BY <1>1, Recursion
<1> DEFINE g == [n \in 0 .. N |-> f[n]]
<1>3. g \in [0 .. N -> X] /\ g[0] = x
  BY <1>2 DEF Follows
<1>4. ASSUME NEW n \in 0 .. N, n # 0
      PROVE  n - 1 \in 0 .. N /\ g[n] = F[<<n, g[n - 1]>>]
  <2>1. n \in 1 .. N /\ n - 1 \in 0 .. N /\ n - 1 \in Nat /\ (n - 1) + 1 = n
    BY <1>4
  <2>2. f[n - 1] \in X /\ f[n] = G[<<n, f[n - 1]>>]
    <3> HIDE DEF G
    <3> QED
      BY <1>2, <2>1 DEF Follows
  <2>3. <<n, f[n - 1]>> \in Nat \X X
    BY <2>1, <2>2
  <2>4. G[<<n, f[n - 1]>>] = F[<<n, f[n - 1]>>]
    BY <2>1, <2>3
  <2> HIDE DEF G
  <2> QED
    BY <2>1, <2>2, <2>4
<1> HIDE DEF g
<1>5. FollowsTo(X, F, x, N, g)
  BY <1>3, <1>4 DEF FollowsTo
<1> QED
  BY <1>5

-----------------------------------------------------------------------------
(* Keep, one element after the other.                                      *)
KeepsBy(S, s, P, kept) ==
  /\ kept \in [0 .. Len(s) -> Seq(S)]
  /\ kept[0] = <<>> /\ Keep(s, P) = kept[Len(s)]
  /\ \A n \in 1 .. Len(s) :
       kept[n] = IF s[n] \in P THEN Append(kept[n - 1], s[n]) ELSE kept[n - 1]

(* Keep obeys its recursion.                                               *)
LEMMA KeepRounds ==
  ASSUME NEW S, NEW s \in Seq(S), NEW P
  PROVE  \E kept : KeepsBy(S, s, P, kept)
<1> DEFINE N == Len(s)
           X == Seq(S)
           Of(n, k) == IF s[n] \in P THEN Append(k, s[n]) ELSE k
           F == [p \in (1 .. N) \X X |-> Of(p[1], p[2])]
           kept == CHOOSE kept : kept = [n \in 0 .. Len(s) |->
                     CASE n = 0 -> <<>>
                       [] n > 0 /\ s[n] \in P -> Append(kept[n - 1], s[n])
                       [] OTHER -> kept[n - 1]]
<1>1. N \in Nat /\ \A n \in 1 .. N : s[n] \in S
  OBVIOUS
<1>2. \A n \in 1 .. N, k \in X : Of(n, k) \in X
  BY <1>1
<1>3. F \in [(1 .. N) \X X -> X] /\ <<>> \in X
  <2> HIDE DEF Of, X
  <2>1. F \in [(1 .. N) \X X -> X]
    BY <1>2
  <2> QED
    BY <2>1 DEF X
<1>4. PICK g \in [0 .. N -> X] :
        /\ g[0] = <<>>
        /\ \A n \in 0 .. N : n # 0 => n - 1 \in 0 .. N /\ g[n] = F[<<n, g[n - 1]>>]
  <2> DEFINE x == <<>>
  <2>1. x \in X
    BY <1>3
  <2> HIDE DEF F, X, N, x
  <2>2. PICK g : FollowsTo(X, F, x, N, g)
    BY <1>1, <1>3, <2>1, RecursionTo
  <2> QED
    BY <2>2 DEF x, FollowsTo
<1>5. ASSUME NEW n \in 1 .. N PROVE n - 1 \in 0 .. N /\ g[n] = Of(n, g[n - 1])
  <2>1. n \in 0 .. N /\ n # 0 /\ n - 1 \in 0 .. N
    BY <1>1
  <2>2. <<n, g[n - 1]>> \in (1 .. N) \X X /\ g[n] = F[<<n, g[n - 1]>>]
    <3> HIDE DEF F, X, N
    <3> QED
      BY <1>4, <2>1
  <2> HIDE DEF X, N, Of
  <2> QED
    BY <2>1, <2>2
<1>6. \A n \in 0 .. N : g[n] = CASE n = 0 -> <<>>
                                 [] n > 0 /\ s[n] \in P -> Append(g[n - 1], s[n])
                                 [] OTHER -> g[n - 1]
  <2> SUFFICES ASSUME NEW n \in 0 .. N
               PROVE  g[n] = CASE n = 0 -> <<>>
                               [] n > 0 /\ s[n] \in P -> Append(g[n - 1], s[n])
                               [] OTHER -> g[n - 1]
    OBVIOUS
  <2>1. CASE n = 0
    BY <1>4, <2>1
  <2>2. CASE n # 0
    <3>1. n \in 1 .. N /\ n > 0
      BY <1>1, <2>2
    <3>2. g[n] = IF s[n] \in P THEN Append(g[n - 1], s[n]) ELSE g[n - 1]
      BY <1>5, <3>1
    <3> QED
      BY <2>2, <3>1, <3>2
  <2> QED
    BY <2>1, <2>2
<1>7. g = [n \in 0 .. N |-> CASE n = 0 -> <<>>
                              [] n > 0 /\ s[n] \in P -> Append(g[n - 1], s[n])
                              [] OTHER -> g[n - 1]]
  <2> HIDE DEF N
  <2> QED
    BY <1>4, <1>6
<1>8. kept = [n \in 0 .. N |-> CASE n = 0 -> <<>>
                              [] n > 0 /\ s[n] \in P -> Append(kept[n - 1], s[n])
                              [] OTHER -> kept[n - 1]]
  BY <1>7
<1>9. Keep(s, P) = kept[N]
  BY DEF Keep
<1> HIDE DEF kept
<1> DEFINE Q == {n \in 0 .. N : kept[n] \in X}
<1>10. 0 \in Q
  BY <1>1, <1>8
<1>11. ASSUME NEW n \in 1 .. N PROVE n - 1 \in 0 .. N /\ kept[n] = Of(n, kept[n - 1])
  <2>1. n \in 0 .. N /\ n # 0 /\ n > 0 /\ n - 1 \in 0 .. N
    BY <1>1
  <2> HIDE DEF N
  <2> QED
    BY <1>8, <2>1
<1>12. \A n \in 1 .. N : n - 1 \in Q => n \in Q
  <2> HIDE DEF X, Of
  <2> QED
    BY <1>2, <1>11
<1>13. 0 .. N \subseteq Q
  <2> HIDE DEF Q, N
  <2> QED
    BY <1>1, <1>10, <1>12, InductionTo
<1>14. kept \in [0 .. N -> X] /\ kept[0] = <<>>
  <2> HIDE DEF X
  <2>1. kept = [n \in 0 .. N |-> kept[n]]
    BY <1>8
  <2> QED
    BY <1>1, <1>8, <1>13, <2>1
<1>15. KeepsBy(S, s, P, kept)
  BY <1>9, <1>11, <1>14 DEF KeepsBy
<1> QED
  BY <1>15

(* What Keep keeps, by places: all the members of P, in their order.       *)
Kept(s, P, k, sel) ==
  /\ sel \in [1 .. Len(k) -> 1 .. Len(s)]
  /\ \A i \in 1 .. Len(k) : k[i] = s[sel[i]] /\ s[sel[i]] \in P
  /\ \A i, j \in 1 .. Len(k) : i < j => sel[i] < sel[j]
  /\ \A m \in 1 .. Len(s) : s[m] \in P => \E i \in 1 .. Len(k) : sel[i] = m

(* What Keep returns is a subsequence: the members of P, in their order.   *)
LEMMA KeptPlaces ==
  ASSUME NEW S, NEW s \in Seq(S), NEW P
  PROVE  Keep(s, P) \in Seq(S) /\ \E sel : Kept(s, P, Keep(s, P), sel)
<1> DEFINE N == Len(s)
<1>1. N \in Nat
  OBVIOUS
<1>0. PICK kept : KeepsBy(S, s, P, kept)
  BY KeepRounds
<1>2. /\ kept \in [0 .. N -> Seq(S)]
      /\ kept[0] = <<>> /\ Keep(s, P) = kept[N]
      /\ \A n \in 1 .. N :
           kept[n] = IF s[n] \in P THEN Append(kept[n - 1], s[n]) ELSE kept[n - 1]
  BY <1>0 DEF KeepsBy
<1> DEFINE Good(n, sel) ==
             /\ sel \in [1 .. Len(kept[n]) -> 1 .. n]
             /\ \A i \in 1 .. Len(kept[n]) : kept[n][i] = s[sel[i]] /\ s[sel[i]] \in P
             /\ \A i, j \in 1 .. Len(kept[n]) : i < j => sel[i] < sel[j]
             /\ \A m \in 1 .. n : s[m] \in P => \E i \in 1 .. Len(kept[n]) : sel[i] = m
           Q == {n \in 0 .. N : \E sel : Good(n, sel)}
<1>3. 0 \in Q
  <2>1. Len(kept[0]) = 0
    BY <1>2
  <2>2. 1 .. 0 = {}
    OBVIOUS
  <2>3. Good(0, [i \in {} |-> 1])
    BY <2>1, <2>2
  <2> HIDE DEF Good
  <2> QED
    BY <1>1, <2>3
<1>4. ASSUME NEW n \in 1 .. N, n - 1 \in Q PROVE n \in Q
  <2>1. n \in 0 .. N /\ n - 1 \in 0 .. N /\ n - 1 \in Nat /\ n \in Nat
    BY <1>1
  <2>2. PICK sel : Good(n - 1, sel)
    BY <1>4
  <2> DEFINE k == kept[n - 1]
             L == Len(k)
  <2>3. k \in Seq(S) /\ L \in Nat /\ s[n] \in S
    BY <1>2, <2>1
  <2>4. CASE s[n] \notin P
    <3>1. kept[n] = k
      BY <1>2, <2>4
    <3>2. sel \in [1 .. L -> 1 .. n]
      BY <2>1, <2>2
    <3>3. \A m \in 1 .. n : s[m] \in P => m \in 1 .. n - 1
      BY <2>1, <2>4
    <3>4. Good(n, sel)
      BY <2>2, <3>1, <3>2, <3>3
    <3> HIDE DEF Good
    <3> QED
      BY <2>1, <3>4
  <2>5. CASE s[n] \in P
    <3> DEFINE to == [i \in 1 .. L + 1 |-> IF i = L + 1 THEN n ELSE sel[i]]
               new == kept[n]
    <3>1. new = Append(k, s[n])
      BY <1>2, <2>5
    <3>2. /\ Len(new) = L + 1 /\ new[L + 1] = s[n]
          /\ \A i \in 1 .. L : new[i] = k[i]
      BY <2>3, <3>1
    <3>3. /\ \A i \in 1 .. L + 1 : i = L + 1 \/ (i \in 1 .. L /\ i < L + 1 /\ i # L + 1)
          /\ \A i \in 1 .. L : i \in 1 .. L + 1 /\ i # L + 1
      BY <2>3
    <3>4. to[L + 1] = n /\ \A i \in 1 .. L : to[i] = sel[i] /\ sel[i] \in 1 .. n - 1
      BY <2>2, <2>3
    <3>5. to \in [1 .. L + 1 -> 1 .. n]
      BY <2>1, <2>2, <2>3
    <3> HIDE DEF to, L
    <3>6. \A i \in 1 .. L + 1 : new[i] = s[to[i]] /\ s[to[i]] \in P
      BY <2>2, <2>5, <3>2, <3>3, <3>4 DEF L
    <3>7. ASSUME NEW i \in 1 .. L + 1, NEW j \in 1 .. L + 1, i < j PROVE to[i] < to[j]
      <4>1. i \in 1 .. L /\ L \in Nat
        BY <2>3, <3>7
      <4>2. CASE j = L + 1
        BY <2>1, <3>4, <4>1, <4>2
      <4>3. CASE j # L + 1
        BY <2>2, <3>3, <3>4, <3>7, <4>1, <4>3 DEF L
      <4> QED
        BY <4>2, <4>3
    <3>8. ASSUME NEW m \in 1 .. n, s[m] \in P PROVE \E i \in 1 .. L + 1 : to[i] = m
      <4>1. CASE m = n
        BY <2>3, <3>4, <4>1
      <4>2. CASE m # n
        <5>1. m \in 1 .. n - 1
          BY <2>1, <4>2
        <5>2. PICK i \in 1 .. L : sel[i] = m
          BY <2>2, <3>8, <5>1 DEF L
        <5> QED
          BY <3>3, <3>4, <5>2
      <4> QED
        BY <4>1, <4>2
    <3>9. Good(n, to)
      BY <3>2, <3>5, <3>6, <3>7, <3>8
    <3> HIDE DEF Good
    <3> QED
      BY <2>1, <3>9
  <2> QED
    BY <2>4, <2>5
<1>5. 0 .. N \subseteq Q
  <2> HIDE DEF Q, N
  <2> QED
    BY <1>1, <1>3, <1>4, InductionTo
<1>6. PICK sel : Good(N, sel)
  <2>1. N \in 0 .. N
    BY <1>1
  <2> HIDE DEF Good, N
  <2> QED
    BY <1>5, <2>1
<1>7. Kept(s, P, Keep(s, P), sel)
  BY <1>2, <1>6 DEF Kept
<1>8. Keep(s, P) \in Seq(S)
  <2> HIDE DEF N
  <2> QED
    BY <1>1, <1>2
<1> QED
  BY <1>7, <1>8

(* An enumeration has each member once.                                    *)
Lists(s, S) ==
  /\ s \in Seq(S)
  /\ \A x \in S : \E i \in 1 .. Len(s) : s[i] = x
  /\ \A i, j \in 1 .. Len(s) : s[i] = s[j] => i = j

(* Keep enumerates the members of P that its argument enumerates.          *)
LEMMA KeepLists ==
  ASSUME NEW S, NEW s, Lists(s, S), NEW P
  PROVE  Lists(Keep(s, P), S \cap P)
<1>1. s \in Seq(S) /\ Len(s) \in Nat /\ \A i \in 1 .. Len(s) : s[i] \in S
  BY DEF Lists
<1> DEFINE k == Keep(s, P)
<1>2. k \in Seq(S) /\ Len(k) \in Nat
  BY <1>1, KeptPlaces
<1>3. PICK sel : Kept(s, P, k, sel)
  BY <1>1, KeptPlaces
<1> HIDE DEF k
<1>4. \A i \in 1 .. Len(k) : k[i] \in S \cap P
  BY <1>1, <1>3 DEF Kept
<1>5. k \in Seq(S \cap P)
  BY <1>2, <1>4, SeqDef
<1>6. ASSUME NEW x \in S \cap P PROVE \E i \in 1 .. Len(k) : k[i] = x
  <2>1. PICK m \in 1 .. Len(s) : s[m] = x
    BY DEF Lists
  <2> QED
    BY <1>3, <2>1 DEF Kept
<1>7. ASSUME NEW i \in 1 .. Len(k), NEW j \in 1 .. Len(k), k[i] = k[j] PROVE i = j
  <2>1. /\ sel[i] \in 1 .. Len(s) /\ sel[j] \in 1 .. Len(s)
        /\ s[sel[i]] = s[sel[j]]
    BY <1>3, <1>7 DEF Kept
  <2> DEFINE a == sel[i]
             b == sel[j]
  <2>2. a = b /\ a \in Nat
    <3>1. a \in 1 .. Len(s) /\ b \in 1 .. Len(s) /\ s[a] = s[b]
      BY <2>1
    <3> HIDE DEF a, b
    <3> QED
      BY <1>1, <3>1 DEF Lists
  <2>3. ~(i < j) /\ ~(j < i)
    BY <1>3, <2>2 DEF Kept
  <2> QED
    BY <1>2, <2>3
<1> QED
  BY <1>5, <1>6, <1>7 DEF Lists, k

(* Both orders list every table, and what is kept of them lists that.      *)
LEMMA TablesListed ==
  /\ Lists(FileOrder, Table) /\ Lists(NameOrder, Table)
  /\ \A P \in SUBSET Table : Lists(Keep(FileOrder, P), P) /\ Lists(Keep(NameOrder, P), P)
<1>1. Lists(FileOrder, Table)
  BY OrderAssumption DEF ListsTables, Lists
<1>2. Lists(NameOrder, Table)
  BY OrderAssumption DEF ListsTables, Lists
<1>3. ASSUME NEW P \in SUBSET Table
      PROVE  Lists(Keep(FileOrder, P), P) /\ Lists(Keep(NameOrder, P), P)
  <2>1. Table \cap P = P
    OBVIOUS
  <2>2. Lists(Keep(FileOrder, P), Table \cap P) /\ Lists(Keep(NameOrder, P), Table \cap P)
    BY <1>1, <1>2, KeepLists
  <2> QED
    BY <2>1, <2>2
<1> QED
  BY <1>1, <1>2, <1>3

Distinct(s) == \A i, j \in 1 .. Len(s) : s[i] = s[j] => i = j

(* ToSet is the set of what is at the places of a sequence.                *)
LEMMA Members ==
  ASSUME NEW S, NEW s \in Seq(S)
  PROVE  /\ Len(s) \in Nat /\ DOMAIN s = 1 .. Len(s)
         /\ ToSet(s) \subseteq S
         /\ \A i \in 1 .. Len(s) : s[i] \in S /\ s[i] \in ToSet(s)
         /\ \A x \in ToSet(s) : \E i \in 1 .. Len(s) : s[i] = x
BY DEF ToSet

(* What is at the places of a concatenation.                               *)
LEMMA MembersOfConcat ==
  ASSUME NEW S, NEW s \in Seq(S), NEW u \in Seq(S)
  PROVE  /\ s \o u \in Seq(S) /\ Len(s \o u) = Len(s) + Len(u)
         /\ \A i \in 1 .. Len(s) : (s \o u)[i] = s[i] /\ i \in 1 .. Len(s \o u)
         /\ \A i \in 1 .. Len(u) :
              (s \o u)[Len(s) + i] = u[i] /\ Len(s) + i \in 1 .. Len(s \o u)
         /\ \A i \in 1 .. Len(s \o u) : i \in 1 .. Len(s) \/ i - Len(s) \in 1 .. Len(u)
         /\ ToSet(s \o u) = ToSet(s) \cup ToSet(u)
         /\ Distinct(s \o u) <=> Distinct(s) /\ Distinct(u) /\ ToSet(s) \cap ToSet(u) = {}
<1> DEFINE c == s \o u
<1>1. /\ c \in Seq(S) /\ Len(c) = Len(s) + Len(u) /\ Len(s) \in Nat /\ Len(u) \in Nat
      /\ \A i \in 1 .. Len(s) + Len(u) :
           c[i] = IF i <= Len(s) THEN s[i] ELSE u[i - Len(s)]
  BY ConcatProperties
<1> HIDE DEF c
<1>2. \A i \in 1 .. Len(s) : c[i] = s[i] /\ i \in 1 .. Len(c)
  BY <1>1
<1>3. ASSUME NEW i \in 1 .. Len(u)
      PROVE  c[Len(s) + i] = u[i] /\ Len(s) + i \in 1 .. Len(c)
  <2>1. Len(s) + i \in 1 .. Len(s) + Len(u) /\ ~(Len(s) + i <= Len(s)) /\ (Len(s) + i) - Len(s) = i
    BY <1>1
  <2> QED
    BY <1>1, <2>1
<1>4. \A i \in 1 .. Len(c) : i \in 1 .. Len(s) \/ i - Len(s) \in 1 .. Len(u)
  BY <1>1
<1>5. ToSet(c) = ToSet(s) \cup ToSet(u)
  <2>1. ASSUME NEW x \in ToSet(c) PROVE x \in ToSet(s) \cup ToSet(u)
    <3>1. PICK i \in 1 .. Len(c) : c[i] = x
      BY <1>1, <2>1, Members
    <3>2. CASE i \in 1 .. Len(s)
      BY <1>2, <3>1, <3>2, Members
    <3>3. CASE i - Len(s) \in 1 .. Len(u)
      <4>1. c[Len(s) + (i - Len(s))] = u[i - Len(s)] /\ Len(s) + (i - Len(s)) = i
        BY <1>1, <1>3, <3>3
      <4> QED
        BY <3>1, <3>3, <4>1, Members
    <3> QED
      BY <1>4, <3>2, <3>3
  <2>2. ASSUME NEW x \in ToSet(s) PROVE x \in ToSet(c)
    BY <1>1, <1>2, <2>2, Members
  <2>3. ASSUME NEW x \in ToSet(u) PROVE x \in ToSet(c)
    <3>1. PICK i \in 1 .. Len(u) : u[i] = x
      BY <2>3, Members
    <3>2. c[Len(s) + i] = x /\ Len(s) + i \in 1 .. Len(c)
      BY <1>3, <3>1
    <3> QED
      BY <1>1, <3>2, Members
  <2> QED
    BY <2>1, <2>2, <2>3
<1>6. ASSUME Distinct(c) PROVE Distinct(s) /\ Distinct(u) /\ ToSet(s) \cap ToSet(u) = {}
  <2>1. Distinct(s)
    BY <1>2, <1>6 DEF Distinct
  <2>2. ASSUME NEW i \in 1 .. Len(u), NEW j \in 1 .. Len(u), u[i] = u[j] PROVE i = j
    <3>1. Len(s) + i = Len(s) + j
      BY <1>3, <1>6, <2>2 DEF Distinct
    <3> QED
      BY <1>1, <3>1
  <2>3. ASSUME NEW x \in ToSet(s), x \in ToSet(u) PROVE FALSE
    <3>1. PICK i \in 1 .. Len(s), j \in 1 .. Len(u) : s[i] = x /\ u[j] = x
      BY <2>3, Members
    <3>2. i = Len(s) + j
      BY <1>2, <1>3, <1>6, <3>1 DEF Distinct
    <3> QED
      BY <1>1, <3>2
  <2> QED
    BY <2>1, <2>2, <2>3 DEF Distinct
<1>7. ASSUME Distinct(s), Distinct(u), ToSet(s) \cap ToSet(u) = {},
             NEW i \in 1 .. Len(c), NEW j \in 1 .. Len(c), c[i] = c[j]
      PROVE  i = j
  <2> DEFINE a == i - Len(s)
             b == j - Len(s)
  <2>1. i \in Nat /\ j \in Nat /\ Len(s) + a = i /\ Len(s) + b = j
    BY <1>1
  <2>2. /\ i \in 1 .. Len(s) \/ a \in 1 .. Len(u)
        /\ j \in 1 .. Len(s) \/ b \in 1 .. Len(u)
    BY <1>4
  <2>3. /\ i \in 1 .. Len(s) => c[i] = s[i] /\ c[i] \in ToSet(s)
        /\ j \in 1 .. Len(s) => c[j] = s[j] /\ c[j] \in ToSet(s)
    BY <1>2, Members
  <2> HIDE DEF a, b
  <2>4. /\ a \in 1 .. Len(u) => c[i] = u[a] /\ c[i] \in ToSet(u)
        /\ b \in 1 .. Len(u) => c[j] = u[b] /\ c[j] \in ToSet(u)
    BY <1>3, <2>1, Members
  <2>5. CASE i \in 1 .. Len(s) /\ j \in 1 .. Len(s)
    BY <1>7, <2>3, <2>5 DEF Distinct
  <2>6. CASE a \in 1 .. Len(u) /\ b \in 1 .. Len(u)
    <3>1. a = b
      BY <1>7, <2>4, <2>6 DEF Distinct
    <3> QED
      BY <2>1, <3>1
  <2> QED
    BY <1>7, <2>2, <2>3, <2>4, <2>5, <2>6
<1>8. ASSUME Distinct(s), Distinct(u), ToSet(s) \cap ToSet(u) = {} PROVE Distinct(c)
  BY <1>7, <1>8 DEF Distinct
<1> QED
  BY <1>1, <1>2, <1>3, <1>4, <1>5, <1>6, <1>8 DEF c

(* What is at the places of an Append.                                     *)
LEMMA MembersOfAppend ==
  ASSUME NEW S, NEW s \in Seq(S), NEW x \in S
  PROVE  /\ Append(s, x) \in Seq(S) /\ Len(Append(s, x)) = Len(s) + 1
         /\ Append(s, x)[Len(s) + 1] = x
         /\ \A i \in 1 .. Len(s) : Append(s, x)[i] = s[i]
         /\ ToSet(Append(s, x)) = ToSet(s) \cup {x}
         /\ Distinct(s) /\ ToSet(s) \cap {x} = {} => Distinct(Append(s, x))
<1> DEFINE a == Append(s, x)
<1>1. /\ a \in Seq(S) /\ Len(a) = Len(s) + 1 /\ Len(s) \in Nat
      /\ a[Len(s) + 1] = x
      /\ \A i \in 1 .. Len(s) : a[i] = s[i]
  OBVIOUS
<1> HIDE DEF a
<1>2. \A i \in 1 .. Len(a) : i \in 1 .. Len(s) \/ i = Len(s) + 1
  BY <1>1
<1>3. \A i \in 1 .. Len(s) : i \in 1 .. Len(a)
  BY <1>1
<1>4. Len(s) + 1 \in 1 .. Len(a)
  BY <1>1
<1>5. ToSet(a) = ToSet(s) \cup {x}
  <2>1. ASSUME NEW y \in ToSet(a) PROVE y \in ToSet(s) \cup {x}
    BY <1>1, <1>2, <2>1, Members
  <2>2. ASSUME NEW y \in ToSet(s) PROVE y \in ToSet(a)
    BY <1>1, <1>3, <2>2, Members
  <2>3. x \in ToSet(a)
    BY <1>1, <1>4, Members
  <2> QED
    BY <2>1, <2>2, <2>3
<1>6. ASSUME Distinct(s), x \notin ToSet(s),
             NEW i \in 1 .. Len(a), NEW j \in 1 .. Len(a), a[i] = a[j]
      PROVE  i = j
  <2>1. \A k \in 1 .. Len(s) : s[k] # x
    BY <1>6, Members
  <2> QED
    BY <1>1, <1>2, <1>6, <2>1 DEF Distinct
<1>7. Distinct(s) /\ ToSet(s) \cap {x} = {} => Distinct(a)
  BY <1>6 DEF Distinct
<1> QED
  BY <1>1, <1>5, <1>7 DEF a

(* A sequence without repetitions is as long as a set when it has all of it. *)
LEMMA Counted ==
  ASSUME NEW S, IsFiniteSet(S), NEW s \in Seq(S), Distinct(s)
  PROVE  /\ Len(s) = Cardinality(S) <=> \A x \in S : \E i \in 1 .. Len(s) : s[i] = x
         /\ Len(s) <= Cardinality(S)
<1> DEFINE D == 1 .. Len(s)
<1>1. Len(s) \in Nat /\ s \in [D -> S]
  BY LenProperties
<1>2. s \in Injection(D, S)
  BY <1>1 DEF Injection, IsInjective, Distinct
<1>3. Cardinality(D) = Len(s)
  <2>1. Cardinality(D) = IF 1 > Len(s) THEN 0 ELSE Len(s) - 1 + 1
    BY <1>1, FS_Interval
  <2> QED
    BY <1>1, <2>1
<1>4. Cardinality(D) <= Cardinality(S) /\ (Cardinality(D) = Cardinality(S) <=> s \in Surjection(D, S))
  BY <1>2, FS_Injection
<1>5. s \in Surjection(D, S) <=> \A x \in S : \E i \in D : s[i] = x
  BY <1>1 DEF Surjection
<1> QED
  BY <1>3, <1>4, <1>5

(* Two enumerations of one set have the same length.                       *)
LEMMA ListsCount ==
  ASSUME NEW S, IsFiniteSet(S), NEW s, Lists(s, S)
  PROVE  Len(s) = Cardinality(S)
<1>1. s \in Seq(S) /\ Distinct(s) /\ \A x \in S : \E i \in 1 .. Len(s) : s[i] = x
  BY DEF Lists, Distinct
<1> QED
  BY <1>1, Counted

-----------------------------------------------------------------------------
(* Kahn's algorithm.                                                       *)
KahnState(dag) == [sorted : Seq(Existing(dag)), queue : Seq(Existing(dag))]

(* The state of Kahn's algorithm consists of sequences of desired tables.  *)
LEMMA VisitTypes ==
  ASSUME NEW dag, NEW state \in KahnState(dag)
  PROVE  Visit(dag, state) \in KahnState(dag)
<1> DEFINE E == Existing(dag)
           sorted == Append(state.sorted, Head(state.queue))
           ready == {t \in Existing(dag) :
                       /\ Head(state.queue) \in Upstream(dag, t)
                       /\ Upstream(dag, t) \subseteq ToSet(sorted)}
<1>1. state.sorted \in Seq(E) /\ state.queue \in Seq(E)
  BY DEF KahnState
<1>2. CASE state.queue = <<>>
  BY <1>2 DEF Visit
<1>3. CASE state.queue # <<>>
  <2>1. Head(state.queue) \in E /\ Tail(state.queue) \in Seq(E)
    BY <1>1, <1>3, HeadTailProperties
  <2>2. sorted \in Seq(E)
    BY <1>1, <2>1
  <2>3. ready \in SUBSET Table /\ ready \subseteq E
    BY DEF Existing
  <2> HIDE DEF ready, sorted, E
  <2>4. Keep(FileOrder, ready) \in Seq(E)
    <3>1. Keep(FileOrder, ready) \in Seq(ready)
      BY <2>3, TablesListed DEF Lists
    <3> QED
      BY <2>3, <3>1, SeqMonotonic
  <2>5. Tail(state.queue) \o Keep(FileOrder, ready) \in Seq(E)
    BY <2>1, <2>4, ConcatProperties
  <2>6. Visit(dag, state) = [sorted |-> sorted,
                             queue |-> Tail(state.queue) \o Keep(FileOrder, ready)]
    BY <1>3 DEF Visit, sorted, ready
  <2> QED
    BY <2>2, <2>5, <2>6 DEF KahnState, E
<1> QED
  BY <1>2, <1>3

Roots(dag) == {t \in Existing(dag) : Upstream(dag, t) = {}}

Begun(dag) == [sorted |-> <<>>, queue |-> Keep(FileOrder, Roots(dag))]

Rounds(dag) == Len(Keep(FileOrder, Existing(dag)))

SortsBy(dag, visited) ==
  /\ visited \in [0 .. Rounds(dag) -> KahnState(dag)]
  /\ visited[0] = Begun(dag)
  /\ TopologicalSort(dag) = visited[Rounds(dag)].sorted
  /\ \A n \in 1 .. Rounds(dag) : visited[n] = Visit(dag, visited[n - 1])

(* There are as many rounds as tables in the files.                        *)
LEMMA RoundsAreTables ==
  ASSUME NEW dag
  PROVE  /\ Existing(dag) \in SUBSET Table /\ IsFiniteSet(Existing(dag))
         /\ Rounds(dag) = Cardinality(Existing(dag)) /\ Rounds(dag) \in Nat
         /\ Begun(dag) \in KahnState(dag)
<1>1. Existing(dag) \in SUBSET Table
  BY DEF Existing
<1>2. IsFiniteSet(Existing(dag))
  BY <1>1, TableIsFinite, FS_Subset
<1>3. Lists(Keep(FileOrder, Existing(dag)), Existing(dag))
  BY <1>1, TablesListed
<1>4. Rounds(dag) = Cardinality(Existing(dag))
  BY <1>2, <1>3, ListsCount DEF Rounds
<1>5. Keep(FileOrder, Roots(dag)) \in Seq(Existing(dag))
  <2>1. Roots(dag) \in SUBSET Table /\ Roots(dag) \subseteq Existing(dag)
    BY <1>1 DEF Roots
  <2>2. Keep(FileOrder, Roots(dag)) \in Seq(Roots(dag))
    BY <2>1, TablesListed DEF Lists
  <2> QED
    BY <2>1, <2>2, SeqMonotonic
<1> QED
  BY <1>1, <1>2, <1>4, <1>5, FS_CardinalityType DEF KahnState, Begun

(* The rounds of Kahn's algorithm obey their recursion.                    *)
LEMMA SortRounds ==
  ASSUME NEW dag PROVE \E visited : SortsBy(dag, visited)
<1> DEFINE N == Rounds(dag)
           X == KahnState(dag)
           x == Begun(dag)
           Of(k) == Visit(dag, k)
           F == [p \in (1 .. N) \X X |-> Of(p[2])]
           visited == CHOOSE visited : visited = [n \in 0 .. Rounds(dag) |->
                        IF n = 0 THEN [sorted |-> <<>>, queue |-> Keep(FileOrder, Roots(dag))]
                        ELSE Visit(dag, visited[n - 1])]
<1>1. N \in Nat /\ x \in X /\ \A k \in X : Of(k) \in X
  BY RoundsAreTables, VisitTypes
<1>2. F \in [(1 .. N) \X X -> X]
  <2> HIDE DEF X, Of
  <2> QED
    BY <1>1
<1>3. PICK g : FollowsTo(X, F, x, N, g)
  <2> HIDE DEF X, F, x, N
  <2> QED
    BY <1>1, <1>2, RecursionTo
<1>4. ASSUME NEW n \in 0 .. N, n # 0
      PROVE  n - 1 \in 0 .. N /\ g[n] = Of(g[n - 1])
  <2>1. n \in 1 .. N /\ n - 1 \in 0 .. N /\ g[n] = F[<<n, g[n - 1]>>] /\ g[n - 1] \in X
    <3> HIDE DEF F, X, N
    <3> QED
      BY <1>1, <1>3, <1>4 DEF FollowsTo
  <2>2. <<n, g[n - 1]>> \in (1 .. N) \X X
    BY <2>1
  <2> HIDE DEF X, N, Of
  <2> QED
    BY <2>1, <2>2
<1>5. g = [n \in 0 .. N |-> IF n = 0 THEN x ELSE Visit(dag, g[n - 1])]
  <2>1. g \in [0 .. N -> X] /\ g[0] = x
    BY <1>3 DEF FollowsTo
  <2> HIDE DEF X, N, x
  <2> QED
    BY <1>4, <2>1
<1>6. visited = [n \in 0 .. N |-> IF n = 0 THEN x ELSE Visit(dag, visited[n - 1])]
  BY <1>5 DEF Begun
<1>7. TopologicalSort(dag) = visited[N].sorted
  BY DEF TopologicalSort, Rounds, Roots
<1> HIDE DEF visited
<1>8. visited[0] = x
  <2> HIDE DEF N, x
  <2> QED
    BY <1>1, <1>6
<1>9. ASSUME NEW n \in 1 .. N
      PROVE  n \in 0 .. N /\ n - 1 \in 0 .. N /\ visited[n] = Of(visited[n - 1])
  <2>1. n \in 0 .. N /\ n # 0 /\ n - 1 \in 0 .. N
    BY <1>1
  <2> HIDE DEF N, x
  <2> QED
    BY <1>6, <2>1
<1>10. \A n \in 0 .. N : visited[n] \in X
  <2> DEFINE Q == {n \in 0 .. N : visited[n] \in X}
  <2>1. 0 \in Q
    BY <1>1, <1>8
  <2>2. \A n \in 1 .. N : n - 1 \in Q => n \in Q
    <3> HIDE DEF X, Of, N
    <3> QED
      BY <1>1, <1>9
  <2>3. 0 .. N \subseteq Q
    <3> HIDE DEF Q, N
    <3> QED
      BY <1>1, <2>1, <2>2, InductionTo
  <2> QED
    BY <2>3
<1>11. visited \in [0 .. N -> X]
  <2> HIDE DEF X, N, x
  <2> QED
    BY <1>6, <1>10
<1>12. SortsBy(dag, visited)
  BY <1>7, <1>8, <1>9, <1>11 DEF SortsBy
<1> QED
  BY <1>12

(* What a round of it keeps: nothing is visited or queued twice, a visited *)
(* table comes after what it reads, a queued one has all of that visited,  *)
(* and no other table has.                                                 *)
KahnInv(dag, state) ==
  /\ state \in KahnState(dag)
  /\ Distinct(state.sorted \o state.queue)
  /\ \A i \in 1 .. Len(state.sorted) : \A u \in Upstream(dag, state.sorted[i]) :
       \E j \in 1 .. i - 1 : state.sorted[j] = u
  /\ \A t \in ToSet(state.queue) : Upstream(dag, t) \subseteq ToSet(state.sorted)
  /\ \A t \in Existing(dag) : Upstream(dag, t) \subseteq ToSet(state.sorted) =>
       t \in ToSet(state.sorted) \/ t \in ToSet(state.queue)

(* The set that an enumeration enumerates.                                 *)
LEMMA ListedSet ==
  ASSUME NEW S, NEW s, Lists(s, S)
  PROVE  s \in Seq(S) /\ Distinct(s) /\ ToSet(s) = S
<1>1. s \in Seq(S) /\ Distinct(s)
  BY DEF Lists, Distinct
<1>2. \A x \in S : x \in ToSet(s)
  <2> SUFFICES ASSUME NEW x \in S PROVE x \in ToSet(s)
    OBVIOUS
  <2>1. PICK i \in 1 .. Len(s) : s[i] = x
    BY DEF Lists
  <2> QED
    BY <1>1, <2>1, Members
<1> QED
  BY <1>1, <1>2, Members

(* The invariant of the rounds holds of the roots.                         *)
LEMMA KahnBegins ==
  ASSUME NEW dag PROVE KahnInv(dag, Begun(dag))
<1> DEFINE queue == Keep(FileOrder, Roots(dag))
           E == Existing(dag)
<1>1. Begun(dag) \in KahnState(dag) /\ Begun(dag).sorted = <<>> /\ Begun(dag).queue = queue
  BY RoundsAreTables DEF Begun
<1>2. Lists(queue, Roots(dag))
  <2>1. Roots(dag) \in SUBSET Table
    BY DEF Roots, Existing
  <2> QED
    BY <2>1, TablesListed
<1>3. queue \in Seq(Roots(dag)) /\ Distinct(queue) /\ ToSet(queue) = Roots(dag)
  BY <1>2, ListedSet
<1>4. ToSet(<<>>) = {} /\ Len(<<>>) = 0 /\ <<>> \o queue = queue
  BY <1>3, ConcatEmptySeq, EmptySeq DEF ToSet
<1> HIDE DEF queue
<1> QED
  BY <1>1, <1>3, <1>4 DEF KahnInv, Roots

(* Each round keeps the invariant: a table is queued just when the last of *)
(* its dependencies is sorted.                                             *)
LEMMA KahnKeeps ==
  ASSUME NEW dag, NEW state, KahnInv(dag, state)
  PROVE  KahnInv(dag, Visit(dag, state))
<1> DEFINE E == Existing(dag)
           done == state.sorted
           queue == state.queue
           h == Head(queue)
           sorted == Append(done, h)
           ready == {t \in Existing(dag) :
                       /\ h \in Upstream(dag, t)
                       /\ Upstream(dag, t) \subseteq ToSet(sorted)}
           new == Keep(FileOrder, ready)
           rest == Tail(queue)
<1>1. CASE queue = <<>>
  BY <1>1 DEF Visit
<1>2. CASE queue # <<>>
  <2>1. done \in Seq(E) /\ queue \in Seq(E)
    BY DEF KahnInv, KahnState
  <2>2. Visit(dag, state) = [sorted |-> sorted, queue |-> rest \o new]
    BY <1>2 DEF Visit
  <2>3. Visit(dag, state) \in KahnState(dag)
    BY VisitTypes DEF KahnInv
  <2>4. Lists(new, ready)
    <3>1. ready \in SUBSET Table
      BY DEF Existing
    <3> HIDE DEF ready
    <3> QED
      BY <3>1, TablesListed
  <2>5. new \in Seq(ready) /\ Distinct(new) /\ ToSet(new) = ready
    <3> HIDE DEF ready, new
    <3> QED
      BY <2>4, ListedSet
  <2>6. /\ h \in E /\ rest \in Seq(E) /\ <<h>> \in Seq(E)
        /\ queue = <<h>> \o rest /\ sorted = done \o <<h>>
    <3> HIDE DEF E
    <3> QED
      BY <1>2, <2>1, HeadTailProperties
  <2>7. /\ Distinct(done) /\ Distinct(queue) /\ ToSet(done) \cap ToSet(queue) = {}
    <3> HIDE DEF E
    <3> QED
      BY <2>1, MembersOfConcat DEF KahnInv
  <2>8. ToSet(<<h>>) = {h} /\ Distinct(<<h>>) /\ Len(<<h>>) = 1
    BY DEF ToSet, Distinct
  <2>9. /\ ToSet(queue) = {h} \cup ToSet(rest) /\ Distinct(rest) /\ h \notin ToSet(rest)
    <3> DEFINE one == <<h>>
    <3> HIDE DEF E, h, rest, queue, one
    <3>1. queue = one \o rest /\ one \in Seq(E) /\ rest \in Seq(E)
      BY <2>6 DEF one
    <3>2. Distinct(one \o rest) /\ ToSet(one \o rest) = ToSet(queue)
      BY <2>7, <3>1
    <3>3. /\ ToSet(one \o rest) = ToSet(one) \cup ToSet(rest)
          /\ Distinct(rest) /\ ToSet(one) \cap ToSet(rest) = {}
      BY <3>1, <3>2, MembersOfConcat
    <3>4. ToSet(one) = {h}
      BY <2>8 DEF one
    <3> QED
      BY <3>2, <3>3, <3>4
  <2>10. /\ sorted \in Seq(E) /\ ToSet(sorted) = ToSet(done) \cup {h}
         /\ Distinct(sorted) /\ Len(sorted) = Len(done) + 1 /\ sorted[Len(done) + 1] = h
         /\ \A i \in 1 .. Len(done) : sorted[i] = done[i]
    <3>1. ToSet(done) \cap {h} = {}
      BY <2>7, <2>9
    <3> HIDE DEF E, h, done
    <3>2. done \in Seq(E) /\ h \in E
      BY <2>1, <2>6
    <3>3. /\ sorted \in Seq(E) /\ Len(sorted) = Len(done) + 1
          /\ sorted[Len(done) + 1] = h
          /\ \A i \in 1 .. Len(done) : sorted[i] = done[i]
      BY <3>2, MembersOfAppend
    <3>4. /\ ToSet(sorted) = ToSet(done) \cup {h}
          /\ Distinct(done) /\ ToSet(done) \cap {h} = {} => Distinct(sorted)
      BY <3>2, MembersOfAppend
    <3> QED
      BY <2>7, <3>1, <3>3, <3>4
  <2>11. \A t \in E : h \in Upstream(dag, t) => t \notin ToSet(done) /\ t \notin ToSet(queue)
    <3> SUFFICES ASSUME NEW t \in E, h \in Upstream(dag, t)
                 PROVE  t \notin ToSet(done) /\ t \notin ToSet(queue)
      OBVIOUS
    <3>1. h \notin ToSet(done)
      BY <2>7, <2>9
    <3>2. t \notin ToSet(queue)
      BY <3>1 DEF KahnInv
    <3>3. ASSUME t \in ToSet(done) PROVE FALSE
      <4>1. PICK i \in 1 .. Len(done) : done[i] = t
        BY <2>1, <3>3, Members
      <4>2. PICK j \in 1 .. i - 1 : done[j] = h
        BY <4>1 DEF KahnInv
      <4>3. j \in 1 .. Len(done)
        BY <2>1, <4>1, <4>2
      <4> QED
        BY <2>1, <3>1, <4>2, <4>3, Members
    <3> QED
      BY <3>2, <3>3
  <2>12. /\ rest \o new \in Seq(E) /\ ToSet(rest \o new) = ToSet(rest) \cup ready
         /\ Distinct(rest \o new)
    <3>1. ready \subseteq E
      OBVIOUS
    <3>2. ToSet(rest) \cap ready = {}
      BY <2>9, <2>11
    <3> HIDE DEF E, ready, new, rest
    <3>3. new \in Seq(E)
      BY <2>5, <3>1, SeqMonotonic
    <3> QED
      BY <2>5, <2>6, <2>9, <3>2, <3>3, MembersOfConcat
  <2>13. Distinct(sorted \o (rest \o new))
    <3>1. ToSet(sorted) \cap ToSet(rest \o new) = {}
      <4>1. \A t \in ready : t \in E /\ h \in Upstream(dag, t)
        OBVIOUS
      <4>2. \A t \in ready : t \notin ToSet(done) /\ t # h /\ t \notin ToSet(rest)
        BY <2>9, <2>11, <4>1
      <4> HIDE DEF ready
      <4> QED
        BY <2>7, <2>9, <2>10, <2>12, <4>2
    <3> HIDE DEF sorted, rest, new, E
    <3> QED
      BY <2>10, <2>12, <3>1, MembersOfConcat
  <2>14. ASSUME NEW i \in 1 .. Len(sorted), NEW u \in Upstream(dag, sorted[i])
         PROVE  \E j \in 1 .. i - 1 : sorted[j] = u
    <3>1. Len(done) \in Nat
      BY <2>1
    <3>2. CASE i \in 1 .. Len(done)
      <4>1. PICK j \in 1 .. i - 1 : done[j] = u
        BY <2>10, <2>14, <3>2 DEF KahnInv
      <4>2. j \in 1 .. Len(done)
        BY <3>1, <3>2, <4>1
      <4> QED
        BY <2>10, <4>1, <4>2
    <3>3. CASE i = Len(done) + 1
      <4>1. u \in ToSet(done)
        BY <2>9, <2>10, <2>14, <3>3 DEF KahnInv
      <4>2. PICK j \in 1 .. Len(done) : done[j] = u
        BY <2>1, <4>1, Members
      <4>3. j \in 1 .. i - 1
        BY <3>1, <3>3, <4>2
      <4> QED
        BY <2>10, <4>2, <4>3
    <3> HIDE DEF sorted
    <3> QED
      BY <2>10, <2>14, <3>1, <3>2, <3>3
  <2>15. ASSUME NEW t \in ToSet(rest \o new) PROVE Upstream(dag, t) \subseteq ToSet(sorted)
    <3>1. CASE t \in ToSet(rest)
      BY <2>9, <2>10, <3>1 DEF KahnInv
    <3>2. CASE t \in ready
      BY <3>2
    <3> QED
      BY <2>12, <2>15, <3>1, <3>2
  <2>16. ASSUME NEW t \in E, Upstream(dag, t) \subseteq ToSet(sorted)
         PROVE  t \in ToSet(sorted) \/ t \in ToSet(rest \o new)
    <3>1. CASE h \in Upstream(dag, t)
      <4>1. t \in ready
        BY <2>16, <3>1
      <4> QED
        BY <2>12, <4>1
    <3>2. CASE h \notin Upstream(dag, t)
      <4>1. Upstream(dag, t) \subseteq ToSet(done)
        BY <2>10, <2>16, <3>2
      <4>2. t \in ToSet(done) \/ t \in ToSet(queue)
        BY <4>1 DEF KahnInv
      <4> QED
        BY <2>9, <2>10, <2>12, <4>2
    <3> QED
      BY <3>1, <3>2
  <2> DEFINE next == Visit(dag, state)
  <2>17. next.sorted = sorted /\ next.queue = rest \o new
    BY <2>2
  <2> HIDE DEF next, sorted, rest, new, done, queue, h, ready
  <2>18. KahnInv(dag, next)
    BY <2>3, <2>13, <2>14, <2>15, <2>16, <2>17 DEF KahnInv, next
  <2> QED
    BY <2>18 DEF next
<1> QED
  BY <1>1, <1>2

(* After as many rounds as tables the queue is empty.                      *)
Finished(dag, sorted) ==
  /\ sorted \in Seq(Existing(dag)) /\ Distinct(sorted)
  /\ \A i \in 1 .. Len(sorted) : \A u \in Upstream(dag, sorted[i]) :
       \E j \in 1 .. i - 1 : sorted[j] = u
  /\ \A t \in Existing(dag) :
       Upstream(dag, t) \subseteq ToSet(sorted) => t \in ToSet(sorted)

(* What is sorted after all rounds is closed under dependencies, and what  *)
(* is not sorted waits for something that is not.                          *)
LEMMA SortFinishes ==
  ASSUME NEW dag PROVE Finished(dag, TopologicalSort(dag))
<1> DEFINE N == Rounds(dag)
           E == Existing(dag)
<1>1. PICK visited : SortsBy(dag, visited)
  BY SortRounds
<1>2. N \in Nat /\ IsFiniteSet(E) /\ Cardinality(E) = N
  BY RoundsAreTables
<1> DEFINE Q == {n \in 0 .. N :
                   /\ KahnInv(dag, visited[n])
                   /\ visited[n].queue = <<>> \/ Len(visited[n].sorted) = n}
<1>3. 0 \in Q
  <2>1. visited[0] = Begun(dag) /\ Begun(dag).sorted = <<>> /\ Len(<<>>) = 0
    BY <1>1, EmptySeq DEF SortsBy, Begun
  <2> QED
    BY <1>2, <2>1, KahnBegins
<1>4. ASSUME NEW n \in 1 .. N, n - 1 \in Q PROVE n \in Q
  <2> DEFINE old == visited[n - 1]
             new == visited[n]
  <2>1. new = Visit(dag, old) /\ n \in 0 .. N /\ n - 1 \in 0 .. N
    BY <1>1, <1>2 DEF SortsBy
  <2>2. KahnInv(dag, old) /\ (old.queue = <<>> \/ Len(old.sorted) = n - 1)
    BY <1>4
  <2> HIDE DEF old, new
  <2>3. KahnInv(dag, new)
    BY <2>1, <2>2, KahnKeeps
  <2>4. CASE old.queue = <<>>
    <3>1. new = old
      BY <2>1, <2>4 DEF Visit
    <3> QED
      BY <2>1, <2>3, <2>4, <3>1 DEF new
  <2>5. CASE old.queue # <<>>
    <3>1. new.sorted = Append(old.sorted, Head(old.queue))
      BY <2>1, <2>5 DEF Visit
    <3>2. old.sorted \in Seq(E) /\ Len(old.sorted) = n - 1
      BY <2>2, <2>5 DEF KahnInv, KahnState
    <3>3. Len(new.sorted) = Len(old.sorted) + 1
      BY <3>1, <3>2
    <3>4. Len(new.sorted) = n
      BY <1>2, <3>2, <3>3
    <3> QED
      BY <2>1, <2>3, <3>4 DEF new
  <2> QED
    BY <2>4, <2>5
<1>5. 0 .. N \subseteq Q
  <2> HIDE DEF Q, N
  <2> QED
    BY <1>2, <1>3, <1>4, InductionTo
<1> DEFINE last == visited[N]
<1>6. KahnInv(dag, last) /\ (last.queue = <<>> \/ Len(last.sorted) = N)
  <2>1. N \in Q
    BY <1>2, <1>5
  <2> QED
    BY <2>1
<1>7. last.sorted \in Seq(E) /\ last.queue \in Seq(E) /\ TopologicalSort(dag) = last.sorted
  BY <1>1, <1>6 DEF KahnInv, KahnState, SortsBy
<1> HIDE DEF last
<1>8. Distinct(last.sorted) /\ ToSet(last.sorted) \cap ToSet(last.queue) = {}
  BY <1>6, <1>7, MembersOfConcat DEF KahnInv
<1>9. ToSet(last.queue) = {}
  <2>1. CASE last.queue = <<>>
    BY <2>1, EmptySeq DEF ToSet
  <2>2. CASE Len(last.sorted) = N
    <3>1. \A x \in E : \E i \in 1 .. Len(last.sorted) : last.sorted[i] = x
      BY <1>2, <1>7, <1>8, <2>2, Counted
    <3>2. ASSUME NEW x \in E PROVE x \in ToSet(last.sorted)
      <4>1. PICK i \in 1 .. Len(last.sorted) : last.sorted[i] = x
        BY <3>1
      <4> QED
        BY <1>7, <4>1, Members
    <3> QED
      BY <1>7, <1>8, <3>2, Members
  <2> QED
    BY <1>6, <2>1, <2>2
<1> QED
  BY <1>6, <1>7, <1>8, <1>9 DEF Finished, KahnInv

(* A DAG that is sorted has each of its tables listed after what it reads. *)
LEMMA SortableLists ==
  ASSUME NEW dag
  PROVE  Sortable(dag) <=> Existing(dag) \subseteq ToSet(TopologicalSort(dag))
<1> DEFINE s == TopologicalSort(dag)
<1>1. s \in Seq(Existing(dag)) /\ Distinct(s)
  BY SortFinishes DEF Finished
<1>2. IsFiniteSet(Existing(dag)) /\ Sortable(dag) <=> Len(s) = Cardinality(Existing(dag))
  BY RoundsAreTables DEF Sortable, Rounds
<1> HIDE DEF s
<1>3. Len(s) = Cardinality(Existing(dag)) <=>
        \A x \in Existing(dag) : \E i \in 1 .. Len(s) : s[i] = x
  BY <1>1, RoundsAreTables, Counted
<1>4. (\A x \in Existing(dag) : \E i \in 1 .. Len(s) : s[i] = x)
        <=> Existing(dag) \subseteq ToSet(s)
  BY <1>1, Members
<1> QED
  BY <1>2, <1>3, <1>4, RoundsAreTables DEF s

(* dag.rs:422: a plan is refused exactly when the tables of the files read *)
(* each other in a circle.                                                 *)
LEMMA SortableIsAcyclic ==
  ASSUME NEW dag
  PROVE  Sortable(dag) <=>
           \A tables \in (SUBSET Existing(dag)) \ {{}} :
             \E t \in tables : DependsOn(dag, t) \cap tables = {}
<1> DEFINE s == TopologicalSort(dag)
           E == Existing(dag)
<1>1. s \in Seq(E) /\ Finished(dag, s)
  BY SortFinishes DEF Finished
<1>2. Sortable(dag) <=> E \subseteq ToSet(s)
  BY SortableLists
<1> HIDE DEF s
<1>3. ASSUME E \subseteq ToSet(s), NEW tables \in SUBSET E, tables # {}
      PROVE  \E t \in tables : DependsOn(dag, t) \cap tables = {}
  <2> DEFINE places == {i \in 1 .. Len(s) : s[i] \in tables}
  <2>1. places \in SUBSET Nat /\ places # {}
    <3>1. PICK t \in tables : t \in ToSet(s)
      BY <1>3
    <3> QED
      BY <1>1, <3>1, Members
  <2>2. PICK m \in places : \A k \in places : m <= k
    <3> HIDE DEF places
    <3> QED
      BY <2>1, Least
  <2>3. ASSUME NEW u \in DependsOn(dag, s[m]), u \in tables PROVE FALSE
    <3>1. u \in Upstream(dag, s[m])
      BY <1>3, <2>3 DEF Upstream
    <3>2. PICK j \in 1 .. m - 1 : s[j] = u
      BY <1>1, <3>1 DEF Finished
    <3>3. j \in places /\ j \in Nat /\ m \in Nat /\ j < m
      BY <1>1, <2>1, <2>3, <3>2
    <3> QED
      BY <2>2, <3>3
  <2> QED
    BY <2>2, <2>3
<1>4. ASSUME \A tables \in (SUBSET E) \ {{}} : \E t \in tables : DependsOn(dag, t) \cap tables = {}
      PROVE  E \subseteq ToSet(s)
  <2> DEFINE left == E \ ToSet(s)
  <2>1. SUFFICES ASSUME left # {} PROVE FALSE
    OBVIOUS
  <2>2. PICK t \in left : DependsOn(dag, t) \cap left = {}
    BY <1>4, <2>1
  <2>3. Upstream(dag, t) \subseteq ToSet(s)
    BY <2>2 DEF Upstream
  <2> QED
    BY <1>1, <2>2, <2>3 DEF Finished
<1> QED
  BY <1>2, <1>3, <1>4

(* A plan is refused exactly when files read each other in a circle        *)
(* (dag.rs:422): for all DAGs, Kahn's algorithm sorts every table that can *)
(* be sorted, each once, and misses those on a cycle or behind one.        *)
THEOREM CyclesAreRefused == Spec => []RefusesCycles
<1>1. RefusesCycles
  BY SortableIsAcyclic DEF RefusesCycles
<1> QED
  BY <1>1, PTL

-----------------------------------------------------------------------------
(* The provers do not compute the concatenation of two tuples.             *)
LEMMA Join11 ==
  ASSUME NEW a, NEW b
  PROVE  <<a>> \o <<b>> = <<a, b>>
<1> DEFINE S == {a, b}
<1>1. <<a>> \in Seq(S) /\ <<b>> \in Seq(S) /\ <<a, b>> \in Seq(S)
  OBVIOUS
<1>2. /\ <<a>> \o <<b>> \in Seq(S)
      /\ Len(<<a>> \o <<b>>) = 2
      /\ \A i \in 1 .. 2 : (<<a>> \o <<b>>)[i] = <<a, b>>[i]
  BY <1>1, ConcatProperties
<1> QED
  BY <1>1, <1>2, SeqEqual

(* Two and one.                                                            *)
LEMMA Join21 ==
  ASSUME NEW a, NEW b, NEW c
  PROVE  <<a, b>> \o <<c>> = <<a, b, c>>
<1> DEFINE S == {a, b, c}
<1>1. <<a, b>> \in Seq(S) /\ <<c>> \in Seq(S) /\ <<a, b, c>> \in Seq(S)
  OBVIOUS
<1>2. /\ <<a, b>> \o <<c>> \in Seq(S)
      /\ Len(<<a, b>> \o <<c>>) = 3
      /\ \A i \in 1 .. 3 : (<<a, b>> \o <<c>>)[i] = <<a, b, c>>[i]
  BY <1>1, ConcatProperties
<1> QED
  BY <1>1, <1>2, SeqEqual

(* Two and four.                                                           *)
LEMMA Join24 ==
  ASSUME NEW a, NEW b, NEW c, NEW d, NEW e, NEW f
  PROVE  <<a, b>> \o <<c, d, e, f>> = <<a, b, c, d, e, f>>
<1> DEFINE S == {a, b, c, d, e, f}
<1>1. <<a, b>> \in Seq(S) /\ <<c, d, e, f>> \in Seq(S) /\ <<a, b, c, d, e, f>> \in Seq(S)
  OBVIOUS
<1>2. /\ <<a, b>> \o <<c, d, e, f>> \in Seq(S)
      /\ Len(<<a, b>> \o <<c, d, e, f>>) = 6
      /\ \A i \in 1 .. 6 : (<<a, b>> \o <<c, d, e, f>>)[i] = <<a, b, c, d, e, f>>[i]
  BY <1>1, ConcatProperties
<1> QED
  BY <1>1, <1>2, SeqEqual

(* Three and four.                                                         *)
LEMMA Join34 ==
  ASSUME NEW a, NEW b, NEW c, NEW d, NEW e, NEW f, NEW g
  PROVE  <<a, b, c>> \o <<d, e, f, g>> = <<a, b, c, d, e, f, g>>
<1> DEFINE S == {a, b, c, d, e, f, g}
<1>1. <<a, b, c>> \in Seq(S) /\ <<d, e, f, g>> \in Seq(S) /\ <<a, b, c, d, e, f, g>> \in Seq(S)
  OBVIOUS
<1>2. /\ <<a, b, c>> \o <<d, e, f, g>> \in Seq(S)
      /\ Len(<<a, b, c>> \o <<d, e, f, g>>) = 7
      /\ \A i \in 1 .. 7 : (<<a, b, c>> \o <<d, e, f, g>>)[i] = <<a, b, c, d, e, f, g>>[i]
  BY <1>1, ConcatProperties
<1> QED
  BY <1>1, <1>2, SeqEqual

(* Seven and one.                                                          *)
LEMMA Join71 ==
  ASSUME NEW a, NEW b, NEW c, NEW d, NEW e, NEW f, NEW g, NEW h
  PROVE  <<a, b, c, d, e, f, g>> \o <<h>> = <<a, b, c, d, e, f, g, h>>
<1> DEFINE S == {a, b, c, d, e, f, g, h}
<1>1. <<a, b, c, d, e, f, g>> \in Seq(S) /\ <<h>> \in Seq(S) /\ <<a, b, c, d, e, f, g, h>> \in Seq(S)
  OBVIOUS
<1>2. /\ <<a, b, c, d, e, f, g>> \o <<h>> \in Seq(S)
      /\ Len(<<a, b, c, d, e, f, g>> \o <<h>>) = 8
      /\ \A i \in 1 .. 8 : (<<a, b, c, d, e, f, g>> \o <<h>>)[i] = <<a, b, c, d, e, f, g, h>>[i]
  BY <1>1, ConcatProperties
<1> QED
  BY <1>1, <1>2, SeqEqual

-----------------------------------------------------------------------------
(* The steps of one table.                                                 *)
Pause(t)       == DoWith("PauseImmediate", t, [NoArgs EXCEPT !.refresh = "DIFFERENTIAL"])
Resume(t)      == DoWith("ResumeImmediate", t, [NoArgs EXCEPT !.refresh = "IMMEDIATE"])
Drop(t)        == DoOn("DropStreamTable", t)
Create(t, spec) == DoWith("CreateStreamTable", t, spec)

(* The steps of a rebuild.                                                 *)
LEMMA RebuildIs ==
  ASSUME NEW t, NEW spec, NEW old, NEW first \in BOOLEAN
  PROVE  RebuildSteps(t, spec, old, first) =
           IF old.refresh = "IMMEDIATE"
           THEN IF first
                THEN <<DoOn("ValidateQuery", t), Pause(t), DoOn("WaitForRefresh", t),
                       Drop(t), Create(t, spec), DoOn("RecreatePolicy", t),
                       DoOn("Backfill", t), Resume(t)>>
                ELSE <<Pause(t), DoOn("WaitForRefresh", t), DoOn("ValidateQuery", t),
                       Drop(t), Create(t, spec), DoOn("RecreatePolicy", t),
                       DoOn("Backfill", t), Resume(t)>>
           ELSE IF first
                THEN <<DoOn("ValidateQuery", t), DoOn("WaitForRefresh", t),
                       Drop(t), Create(t, spec), DoOn("RecreatePolicy", t),
                       DoOn("Backfill", t)>>
                ELSE <<DoOn("WaitForRefresh", t), DoOn("ValidateQuery", t),
                       Drop(t), Create(t, spec), DoOn("RecreatePolicy", t),
                       DoOn("Backfill", t)>>
<1> DEFINE w == DoOn("WaitForRefresh", t)
           v == DoOn("ValidateQuery", t)
           p == Pause(t)
           r == Resume(t)
           x == Drop(t)
           y == Create(t, spec)
           z == DoOn("RecreatePolicy", t)
           b == DoOn("Backfill", t)
           S == {w, v, p, r, x, y, z, b}
<1>1. RebuildSteps(t, spec, old, first) =
        When(first, <<v>>) \o When(old.refresh = "IMMEDIATE", <<p>>) \o <<w>>
        \o When(~first, <<v>>) \o <<x, y, z, b>>
        \o When(old.refresh = "IMMEDIATE", <<r>>)
  BY DEF RebuildSteps, Pause, Resume, Drop, Create
<1> HIDE DEF w, v, p, r, x, y, z, b
<1>2. /\ <<v>> \in Seq(S) /\ <<p>> \in Seq(S) /\ <<w>> \in Seq(S) /\ <<w, v>> \in Seq(S)
      /\ <<v, w>> \in Seq(S) /\ <<v, p, w>> \in Seq(S) /\ <<p, w>> \in Seq(S)
      /\ <<w, v, x, y, z, b>> \in Seq(S) /\ <<v, w, x, y, z, b>> \in Seq(S)
  OBVIOUS
<1>3. CASE old.refresh = "IMMEDIATE" /\ first
  <2>1. <<v>> \o <<p>> = <<v, p>>
    BY Join11
  <2>2. <<v, p>> \o <<w>> = <<v, p, w>>
    BY Join21
  <2>3. <<v, p, w>> \o <<>> = <<v, p, w>>
    BY <1>2, ConcatEmptySeq
  <2>4. <<v, p, w>> \o <<x, y, z, b>> = <<v, p, w, x, y, z, b>>
    BY Join34
  <2>5. <<v, p, w, x, y, z, b>> \o <<r>> = <<v, p, w, x, y, z, b, r>>
    BY Join71
  <2>6. RebuildSteps(t, spec, old, first) =
          <<v>> \o <<p>> \o <<w>> \o <<>> \o <<x, y, z, b>> \o <<r>>
    BY <1>1, <1>3 DEF When
  <2>7. RebuildSteps(t, spec, old, first) = <<v, p, w, x, y, z, b, r>>
    BY <2>1, <2>2, <2>3, <2>4, <2>5, <2>6
  <2> QED
    BY <1>3, <2>7 DEF w, v, p, r, x, y, z, b
<1>4. CASE old.refresh = "IMMEDIATE" /\ ~first
  <2>1. <<>> \o <<p>> = <<p>>
    BY <1>2, ConcatEmptySeq
  <2>2. <<p>> \o <<w>> = <<p, w>>
    BY Join11
  <2>3. <<p, w>> \o <<v>> = <<p, w, v>>
    BY Join21
  <2>4. <<p, w, v>> \o <<x, y, z, b>> = <<p, w, v, x, y, z, b>>
    BY Join34
  <2>5. <<p, w, v, x, y, z, b>> \o <<r>> = <<p, w, v, x, y, z, b, r>>
    BY Join71
  <2>6. RebuildSteps(t, spec, old, first) =
          <<>> \o <<p>> \o <<w>> \o <<v>> \o <<x, y, z, b>> \o <<r>>
    BY <1>1, <1>4 DEF When
  <2>7. RebuildSteps(t, spec, old, first) = <<p, w, v, x, y, z, b, r>>
    BY <2>1, <2>2, <2>3, <2>4, <2>5, <2>6
  <2> QED
    BY <1>4, <2>7 DEF w, v, p, r, x, y, z, b
<1>5. CASE old.refresh # "IMMEDIATE" /\ first
  <2>1. <<v>> \o <<>> \o <<w>> \o <<>> = <<v, w>>
    BY <1>2, Join11, ConcatEmptySeq
  <2>2. <<v, w>> \o <<x, y, z, b>> \o <<>> = <<v, w, x, y, z, b>>
    BY <1>2, Join24, ConcatEmptySeq
  <2> QED
    BY <1>1, <1>5, <2>1, <2>2 DEF When, w, v, x, y, z, b
<1>6. CASE old.refresh # "IMMEDIATE" /\ ~first
  <2>1. <<>> \o <<>> \o <<w>> \o <<v>> = <<w, v>>
    <3>1. <<>> \o <<>> = <<>>
      BY <1>2, EmptySeq, ConcatEmptySeq
    <3> QED
      BY <1>2, <3>1, Join11, ConcatEmptySeq
  <2>2. <<w, v>> \o <<x, y, z, b>> \o <<>> = <<w, v, x, y, z, b>>
    BY <1>2, Join24, ConcatEmptySeq
  <2> QED
    BY <1>1, <1>6, <2>1, <2>2 DEF When, w, v, x, y, z, b
<1> QED
  BY <1>3, <1>4, <1>5, <1>6

(* The steps of a drop.                                                    *)
LEMMA DropIs ==
  ASSUME NEW t, NEW old
  PROVE  DropSteps(t, old) =
           CASE old.cdc = "outbox" -> <<DoOn("WaitForRefresh", t), DoOn("DetachOutbox", t), Drop(t)>>
             [] old.cdc = "wal" -> <<DoOn("WaitForRefresh", t), DoOn("ManageWalSlot", t), Drop(t)>>
             [] OTHER -> <<DoOn("WaitForRefresh", t), Drop(t)>>
<1> DEFINE w == DoOn("WaitForRefresh", t)
           o == DoOn("DetachOutbox", t)
           s == DoOn("ManageWalSlot", t)
           x == Drop(t)
           S == {w, o, s, x}
<1>1. DropSteps(t, old) = <<w>> \o When(old.cdc = "outbox", <<o>>)
                          \o When(old.cdc = "wal", <<s>>) \o <<x>>
  BY DEF DropSteps, Drop
<1> HIDE DEF w, o, s, x
<1>2. <<w>> \in Seq(S) /\ <<w, o>> \in Seq(S) /\ <<w, s>> \in Seq(S)
  OBVIOUS
<1>3. CASE old.cdc = "outbox"
  <2>1. <<w>> \o <<o>> = <<w, o>>
    BY Join11
  <2>2. <<w, o>> \o <<>> = <<w, o>>
    BY <1>2, ConcatEmptySeq
  <2>3. <<w, o>> \o <<x>> = <<w, o, x>>
    BY Join21
  <2> QED
    BY <1>1, <1>3, <2>1, <2>2, <2>3 DEF When, w, o, x
<1>4. CASE old.cdc = "wal"
  <2>1. <<w>> \o <<>> = <<w>>
    BY <1>2, ConcatEmptySeq
  <2>2. <<w>> \o <<s>> = <<w, s>>
    BY Join11
  <2>3. <<w, s>> \o <<x>> = <<w, s, x>>
    BY Join21
  <2> QED
    BY <1>1, <1>4, <2>1, <2>2, <2>3 DEF When, w, s, x
<1>5. CASE old.cdc # "outbox" /\ old.cdc # "wal"
  <2>1. <<w>> \o <<>> \o <<>> \o <<x>> = <<w, x>>
    BY <1>2, Join11, ConcatEmptySeq
  <2> QED
    BY <1>1, <1>5, <2>1 DEF When, w, x
<1> QED
  BY <1>3, <1>4, <1>5

(* The arguments of an alter of metadata: NULL where nothing differs.      *)
LEMMA MetadataIs ==
  ASSUME NEW spec \in TableSpec, NEW old \in TableSpec
  PROVE  MetadataArgs(spec, old) =
           [query |-> None,
            schedule |-> IF spec.schedule # old.schedule THEN spec.schedule ELSE None,
            refresh |-> IF spec.refresh # old.refresh THEN spec.refresh ELSE None,
            cdc |-> IF spec.cdc # old.cdc THEN spec.cdc ELSE None]
<1>1. DOMAIN NoArgs = {"query", "schedule", "refresh", "cdc"}
  BY DEF NoArgs
<1>2. /\ "query" \notin ChangedMetadata(spec, old)
      /\ "schedule" \in ChangedMetadata(spec, old) <=> spec.schedule # old.schedule
      /\ "refresh" \in ChangedMetadata(spec, old) <=> spec.refresh # old.refresh
      /\ "cdc" \in ChangedMetadata(spec, old) <=> spec.cdc # old.cdc
  BY DEF ChangedMetadata
<1> QED
  BY <1>1, <1>2 DEF MetadataArgs

-----------------------------------------------------------------------------
(* The steps about the tables T of a plan towards d.                       *)
QuietOps == {"ValidateQuery", "WaitForRefresh", "RecreatePolicy", "Backfill",
             "DetachOutbox", "ManageWalSlot"}

SwitchOps == {"PauseImmediate", "ResumeImmediate"}

TableStep(d, T) ==
  {step \in Step :
     /\ step.table \in T
     /\ step.op \in QuietOps \cup SwitchOps \cup TableChanges
     /\ step.op = "CreateStreamTable" => step.args \in TableSpec /\ step.args = d[step.table]
     /\ step.op \in SwitchOps => step.args.query = None}

(* A complete spec can be passed where fields may be NULL.                 *)
LEMMA SpecIsArgs == TableSpec \subseteq AlterArgs /\ NoArgs \in AlterArgs
BY DEF TableSpec, AlterArgs, NoArgs

(* Every step that a piece may have is one about its table.                *)
LEMMA StepsOfTable ==
  ASSUME NEW d \in DagState, NEW t \in Table
  PROVE  /\ \A op \in QuietOps : DoOn(op, t) \in TableStep(d, {t})
         /\ Drop(t) \in TableStep(d, {t})
         /\ Pause(t) \in TableStep(d, {t}) /\ Resume(t) \in TableStep(d, {t})
         /\ d[t] # Absent => Create(t, d[t]) \in TableStep(d, {t})
         /\ \A args \in AlterArgs : DoWith("AlterStreamTable", t, args) \in TableStep(d, {t})
<1>1. \A op \in QuietOps : DoOn(op, t) \in TableStep(d, {t})
  BY SpecIsArgs DEF TableStep, Step, DoOn, QuietOps, SwitchOps, TableChanges, Op
<1>2. Drop(t) \in TableStep(d, {t})
  BY SpecIsArgs DEF TableStep, Step, Drop, DoOn, QuietOps, SwitchOps, TableChanges, Op
<1>3. ASSUME NEW m \in {"DIFFERENTIAL", "IMMEDIATE"}
      PROVE  [NoArgs EXCEPT !.refresh = m] \in AlterArgs
             /\ [NoArgs EXCEPT !.refresh = m].query = None
  BY <1>3 DEF NoArgs, AlterArgs, RefreshMode
<1>4. Pause(t) \in TableStep(d, {t}) /\ Resume(t) \in TableStep(d, {t})
  BY <1>3 DEF TableStep, Step, Pause, Resume, DoWith, QuietOps, SwitchOps, TableChanges, Op
<1>5. ASSUME d[t] # Absent PROVE Create(t, d[t]) \in TableStep(d, {t})
  <2>1. d[t] \in TableSpec /\ d[t] \in AlterArgs
    BY <1>5, SpecIsArgs DEF DagState
  <2> QED
    BY <2>1 DEF TableStep, Step, Create, DoWith, QuietOps, SwitchOps, TableChanges, Op
<1>6. ASSUME NEW args \in AlterArgs
      PROVE  DoWith("AlterStreamTable", t, args) \in TableStep(d, {t})
  BY <1>6 DEF TableStep, Step, DoWith, QuietOps, SwitchOps, TableChanges, Op
<1> QED
  BY <1>1, <1>2, <1>4, <1>5, <1>6

(* What the kind of a change says of the two specs.                        *)
MetadataKinds == {"AlterSchedule", "AlterRefreshMode", "AlterCdcMode", "AlterMetadata"}

(* The kinds tell apart how the two specs differ.                          *)
LEMMA KindSays ==
  ASSUME NEW d \in DagState, NEW l \in DagState, NEW t \in Table
  PROVE  LET kind == DeltaKind(d, l, t) IN
         /\ kind \in {"Unchanged", "Create", "Drop", "AlterQuery"} \cup MetadataKinds
         /\ kind = "Unchanged" <=> d[t] = l[t]
         /\ kind = "Create" <=> d[t] # Absent /\ l[t] = Absent
         /\ kind = "Drop" <=> d[t] = Absent /\ l[t] # Absent
         /\ kind = "AlterQuery" <=>
              d[t] # Absent /\ l[t] # Absent /\ d[t].query # l[t].query
         /\ kind \in MetadataKinds <=>
              d[t] # Absent /\ l[t] # Absent /\ d[t] # l[t] /\ d[t].query = l[t].query
<1>1. CASE d[t] = Absent \/ l[t] = Absent
  BY <1>1 DEF DeltaKind, MetadataKinds
<1>2. CASE d[t] # Absent /\ l[t] # Absent
  <2>1. d[t] \in TableSpec /\ l[t] \in TableSpec
    BY <1>2 DEF DagState
  <2>2. DeltaKind(d, l, t) = ClassifyChange(d[t], l[t])
    BY <1>2 DEF DeltaKind
  <2>3. ASSUME NEW x \in TableSpec, NEW y \in TableSpec
        PROVE  /\ ChangedMetadata(x, y) = {} <=>
                    x.schedule = y.schedule /\ x.refresh = y.refresh /\ x.cdc = y.cdc
               /\ ClassifyChange(x, y) = "AlterQuery" <=> x.query # y.query
               /\ ClassifyChange(x, y) = "Unchanged" <=>
                    x.query = y.query /\ ChangedMetadata(x, y) = {}
               /\ ClassifyChange(x, y) \in {"Unchanged", "AlterQuery"} \cup MetadataKinds
               /\ x = y <=> /\ x.query = y.query /\ x.schedule = y.schedule
                            /\ x.refresh = y.refresh /\ x.cdc = y.cdc
    <3>1. ChangedMetadata(x, y) = {} <=>
            x.schedule = y.schedule /\ x.refresh = y.refresh /\ x.cdc = y.cdc
      BY DEF ChangedMetadata
    <3>2. /\ ClassifyChange(x, y) = "AlterQuery" <=> x.query # y.query
          /\ ClassifyChange(x, y) = "Unchanged" <=>
               x.query = y.query /\ ChangedMetadata(x, y) = {}
          /\ ClassifyChange(x, y) \in {"Unchanged", "AlterQuery"} \cup MetadataKinds
      BY DEF ClassifyChange, MetadataKinds
    <3>3. x = y <=> /\ x.query = y.query /\ x.schedule = y.schedule
                    /\ x.refresh = y.refresh /\ x.cdc = y.cdc
      BY DEF TableSpec
    <3> QED
      BY <3>1, <3>2, <3>3
  <2>4. \A k \in MetadataKinds : k # "Unchanged" /\ k # "AlterQuery" /\ k # "Create" /\ k # "Drop"
    BY DEF MetadataKinds
  <2> QED
    BY <1>2, <2>1, <2>2, <2>3, <2>4
<1> QED
  BY <1>1, <1>2

(* The steps of one table by the kind and the class of its change.         *)
Altered(d, l, t) ==
  <<DoWith("AlterStreamTable", t, MetadataArgs(d[t], l[t]))>>
Requeried(d, t) ==
  <<DoOn("ValidateQuery", t), DoWith("AlterStreamTable", t, QueryArgs(d[t])), DoOn("Backfill", t)>>

(* The piece of a table, for each kind of change and each class.           *)
LEMMA PieceIs ==
  ASSUME NEW d \in DagState, NEW l \in DagState, NEW t \in Table, NEW c
  PROVE  LET kind == DeltaKind(d, l, t)
             piece == StepsFor(d, l, t, c)
         IN \/ kind = "Unchanged" /\ piece = <<>>
            \/ kind = "Create" /\ piece = CreateSteps(t, d[t])
            \/ kind = "Drop" /\ piece = DropSteps(t, l[t])
            \/ kind \in MetadataKinds /\ c # "Rebuild" /\ piece = Altered(d, l, t)
            \/ kind = "AlterQuery" /\ c = "InPlace" /\ piece = Requeried(d, t)
            \/ /\ kind = "AlterQuery" /\ c # "InPlace"
               /\ piece = RebuildSteps(t, d[t], l[t], TRUE)
            \/ /\ kind \in MetadataKinds /\ c = "Rebuild"
               /\ piece = RebuildSteps(t, d[t], l[t], FALSE)
<1> DEFINE kind == DeltaKind(d, l, t)
<1>1. kind \in {"Unchanged", "Create", "Drop", "AlterQuery"} \cup MetadataKinds
  BY KindSays
<1>2. kind \in MetadataKinds <=> kind \notin {"Unchanged", "Create", "Drop", "AlterQuery"}
  BY <1>1 DEF MetadataKinds
<1> HIDE DEF kind
<1> QED
  BY <1>1, <1>2 DEF StepsFor, Altered, Requeried, kind

(* What an alter passes are arguments.                                     *)
LEMMA ArgsOfAlter ==
  ASSUME NEW spec \in TableSpec, NEW old \in TableSpec
  PROVE  MetadataArgs(spec, old) \in AlterArgs /\ QueryArgs(spec) \in AlterArgs
<1>1. MetadataArgs(spec, old) \in AlterArgs
  BY MetadataIs DEF TableSpec, AlterArgs
<1>2. QueryArgs(spec) \in AlterArgs
  BY DEF QueryArgs, NoArgs, TableSpec, AlterArgs
<1> QED
  BY <1>1, <1>2

(* A piece has steps about its table only.                                 *)
LEMMA PieceSteps ==
  ASSUME NEW d \in DagState, NEW l \in DagState, NEW t \in Table, NEW c
  PROVE  StepsFor(d, l, t, c) \in Seq(TableStep(d, {t}))
<1> DEFINE kind == DeltaKind(d, l, t)
           piece == StepsFor(d, l, t, c)
           S == TableStep(d, {t})
           w == DoOn("WaitForRefresh", t)
           v == DoOn("ValidateQuery", t)
           p == Pause(t)
           r == Resume(t)
           x == Drop(t)
           y == Create(t, d[t])
           z == DoOn("RecreatePolicy", t)
           b == DoOn("Backfill", t)
           o == DoOn("DetachOutbox", t)
           s == DoOn("ManageWalSlot", t)
<1> SUFFICES piece \in Seq(S)
  OBVIOUS
<1>1. /\ w \in S /\ v \in S /\ p \in S /\ r \in S /\ x \in S /\ z \in S /\ b \in S
      /\ o \in S /\ s \in S /\ (d[t] # Absent => y \in S)
  BY StepsOfTable DEF QuietOps
<1>2. ASSUME d[t] # Absent, NEW first \in BOOLEAN
      PROVE  RebuildSteps(t, d[t], l[t], first) \in Seq(S)
  <2>1. y \in S
    BY <1>1, <1>2
  <2>2. RebuildSteps(t, d[t], l[t], first) =
          IF l[t].refresh = "IMMEDIATE"
          THEN IF first THEN <<v, p, w, x, y, z, b, r>> ELSE <<p, w, v, x, y, z, b, r>>
          ELSE IF first THEN <<v, w, x, y, z, b>> ELSE <<w, v, x, y, z, b>>
    BY RebuildIs
  <2> HIDE DEF S, w, v, p, r, x, y, z, b
  <2> QED
    BY <1>1, <2>1, <2>2
<1>3. CASE kind = "Create" /\ piece = CreateSteps(t, d[t])
  <2>1. y \in S
    BY <1>1, <1>3, KindSays
  <2>2. piece = <<v, y, b>>
    BY <1>3 DEF CreateSteps, Create
  <2> HIDE DEF S, v, y, b, piece
  <2> QED
    BY <1>1, <2>1, <2>2
<1>4. CASE piece = DropSteps(t, l[t])
  <2>1. piece = CASE l[t].cdc = "outbox" -> <<w, o, x>>
                  [] l[t].cdc = "wal" -> <<w, s, x>>
                  [] OTHER -> <<w, x>>
    BY <1>4, DropIs
  <2>2. piece = <<w, o, x>> \/ piece = <<w, s, x>> \/ piece = <<w, x>>
    BY <2>1
  <2> HIDE DEF S, w, o, x, s, piece
  <2>3. <<w, o, x>> \in Seq(S) /\ <<w, s, x>> \in Seq(S) /\ <<w, x>> \in Seq(S)
    <3>1. w \in S /\ o \in S /\ x \in S /\ s \in S
      BY <1>1
    <3> QED
      BY <3>1
  <2> QED
    BY <2>2, <2>3
<1>5. CASE kind \in MetadataKinds /\ piece = Altered(d, l, t)
  <2>1. d[t] \in TableSpec /\ l[t] \in TableSpec
    BY <1>5, KindSays DEF DagState
  <2> DEFINE a == DoWith("AlterStreamTable", t, MetadataArgs(d[t], l[t]))
  <2>2. a \in S
    BY <2>1, ArgsOfAlter, StepsOfTable
  <2>3. piece = <<a>>
    BY <1>5 DEF Altered
  <2> HIDE DEF a, S, piece
  <2> QED
    BY <2>2, <2>3
<1>6. CASE kind = "AlterQuery" /\ piece = Requeried(d, t)
  <2>1. d[t] \in TableSpec /\ l[t] \in TableSpec
    BY <1>6, KindSays DEF DagState
  <2> DEFINE a == DoWith("AlterStreamTable", t, QueryArgs(d[t]))
  <2>2. a \in S
    BY <2>1, ArgsOfAlter, StepsOfTable
  <2>3. piece = <<v, a, b>>
    BY <1>6 DEF Requeried
  <2> HIDE DEF a, S, v, b, piece
  <2> QED
    BY <1>1, <2>2, <2>3
<1>7. \/ kind = "Unchanged" /\ piece = <<>>
      \/ kind = "Create" /\ piece = CreateSteps(t, d[t])
      \/ kind = "Drop" /\ piece = DropSteps(t, l[t])
      \/ kind \in MetadataKinds /\ piece = Altered(d, l, t)
      \/ kind = "AlterQuery" /\ piece = Requeried(d, t)
      \/ /\ kind \in MetadataKinds \cup {"AlterQuery"}
         /\ \/ piece = RebuildSteps(t, d[t], l[t], TRUE)
            \/ piece = RebuildSteps(t, d[t], l[t], FALSE)
  <2>1. \/ kind = "Unchanged" /\ piece = <<>>
        \/ kind = "Create" /\ piece = CreateSteps(t, d[t])
        \/ kind = "Drop" /\ piece = DropSteps(t, l[t])
        \/ kind \in MetadataKinds /\ c # "Rebuild" /\ piece = Altered(d, l, t)
        \/ kind = "AlterQuery" /\ c = "InPlace" /\ piece = Requeried(d, t)
        \/ /\ kind = "AlterQuery" /\ c # "InPlace"
           /\ piece = RebuildSteps(t, d[t], l[t], TRUE)
        \/ /\ kind \in MetadataKinds /\ c = "Rebuild"
           /\ piece = RebuildSteps(t, d[t], l[t], FALSE)
    BY PieceIs
  <2> HIDE DEF kind, piece
  <2> QED
    BY <2>1
<1>8. kind \in MetadataKinds \cup {"AlterQuery"} => d[t] # Absent
  BY KindSays
<1>9. <<>> \in Seq(S)
  OBVIOUS
<1> HIDE DEF kind, S, piece
<1>10. TRUE \in BOOLEAN /\ FALSE \in BOOLEAN
  OBVIOUS
<1> QED
  BY <1>2, <1>3, <1>4, <1>5, <1>6, <1>7, <1>8, <1>9, <1>10

-----------------------------------------------------------------------------
(* Running a plan, one step after the other.                               *)
RunnableStep ==
  {step \in Step :
     step.op \in TableChanges \cup SwitchOps =>
       step.table \in Table /\ (step.op = "CreateStreamTable" => step.args \in TableSpec)}

(* A step leaves a DAG.                                                    *)
LEMMA EffectIsDag ==
  ASSUME NEW dag \in DagState, NEW step \in RunnableStep
  PROVE  Effect(dag, step) \in DagState
<1>1. \A t \in Table : dag[t] \in TableSpec \cup {Absent}
  BY DEF DagState
<1>2. ASSUME NEW t \in Table, NEW spec \in TableSpec \cup {Absent}
      PROVE  [dag EXCEPT ![t] = spec] \in DagState
  BY DEF DagState
<1>3. ASSUME NEW old \in TableSpec, NEW args \in AlterArgs
      PROVE  Coalesce(old, args) \in TableSpec
  BY DEF Coalesce, OrElse, TableSpec, AlterArgs
<1>4. step.args \in AlterArgs
  BY DEF RunnableStep, Step
<1>5. CASE step.op = "CreateStreamTable"
  BY <1>2, <1>5 DEF Effect, CreateTable, RunnableStep, TableChanges
<1>6. CASE step.op = "DropStreamTable"
  BY <1>2, <1>6 DEF Effect, DropTable, RunnableStep, TableChanges
<1>7. CASE step.op \in {"AlterStreamTable", "PauseImmediate", "ResumeImmediate"}
  <2>1. step.table \in Table
    BY <1>7 DEF RunnableStep, TableChanges, SwitchOps
  <2>2. Effect(dag, step) = IF dag[step.table] = Absent THEN dag
                            ELSE [dag EXCEPT ![step.table] = Coalesce(dag[step.table], step.args)]
    BY <1>7 DEF Effect, AlterTable
  <2>3. CASE dag[step.table] # Absent
    <3>1. Coalesce(dag[step.table], step.args) \in TableSpec
      BY <1>1, <1>3, <1>4, <2>1, <2>3
    <3> QED
      BY <1>2, <2>1, <2>2, <2>3, <3>1
  <2> QED
    BY <2>2, <2>3
<1>8. CASE step.op \notin {"CreateStreamTable", "DropStreamTable", "AlterStreamTable",
                            "PauseImmediate", "ResumeImmediate"}
  BY <1>8 DEF Effect
<1> QED
  BY <1>5, <1>6, <1>7, <1>8

RunsBy(plan, dag, ran) ==
  /\ ran \in [0 .. Len(plan) -> DagState] /\ ran[0] = dag
  /\ \A n \in 1 .. Len(plan) : n - 1 \in 0 .. Len(plan) /\ ran[n] = Effect(ran[n - 1], plan[n])

(* Running a plan obeys its recursion.                                     *)
LEMMA RanIs ==
  ASSUME NEW plan \in Seq(RunnableStep), NEW dag \in DagState
  PROVE  RunsBy(plan, dag, Ran(plan, dag)) /\ After(plan, dag) = Ran(plan, dag)[Len(plan)]
<1> DEFINE N == Len(plan)
           X == DagState
           Of(n, k) == Effect(k, plan[n])
           F == [p \in (1 .. N) \X X |-> Of(p[1], p[2])]
           ran == CHOOSE ran : ran = [n \in 0 .. Len(plan) |->
                     IF n = 0 THEN dag ELSE Effect(ran[n - 1], plan[n])]
<1>1. N \in Nat /\ \A n \in 1 .. N : plan[n] \in RunnableStep
  OBVIOUS
<1>2. \A n \in 1 .. N, k \in X : Of(n, k) \in X
  BY <1>1, EffectIsDag
<1>3. F \in [(1 .. N) \X X -> X] /\ dag \in X
  <2> HIDE DEF Of
  <2> QED
    BY <1>2
<1>4. PICK g : FollowsTo(X, F, dag, N, g)
  <2> HIDE DEF F, X, N
  <2> QED
    BY <1>1, <1>3, RecursionTo
<1>5. g \in [0 .. N -> X] /\ g[0] = dag
  BY <1>4 DEF FollowsTo
<1>6. ASSUME NEW n \in 1 .. N PROVE n - 1 \in 0 .. N /\ g[n] = Of(n, g[n - 1])
  <2>1. n \in 0 .. N /\ n # 0 /\ n - 1 \in 0 .. N
    BY <1>1
  <2>2. <<n, g[n - 1]>> \in (1 .. N) \X X /\ g[n] = F[<<n, g[n - 1]>>]
    <3> HIDE DEF F, X, N
    <3> QED
      BY <1>4, <1>5, <2>1 DEF FollowsTo
  <2> HIDE DEF X, N, Of
  <2> QED
    BY <2>1, <2>2
<1>7. g = [n \in 0 .. N |-> IF n = 0 THEN dag ELSE Effect(g[n - 1], plan[n])]
  <2>1. \A n \in 0 .. N : n = 0 \/ (n \in 1 .. N /\ n # 0)
    BY <1>1
  <2>2. \A n \in 0 .. N : g[n] = IF n = 0 THEN dag ELSE Effect(g[n - 1], plan[n])
    BY <1>5, <1>6, <2>1
  <2> HIDE DEF N
  <2> QED
    BY <1>5, <2>2
<1>8. ran = [n \in 0 .. N |-> IF n = 0 THEN dag ELSE Effect(ran[n - 1], plan[n])]
  BY <1>7
<1>9. Ran(plan, dag) = ran
  BY DEF Ran
<1> HIDE DEF ran
<1>10. ASSUME NEW n \in 1 .. N PROVE n - 1 \in 0 .. N /\ ran[n] = Of(n, ran[n - 1])
  <2>1. n \in 0 .. N /\ n # 0 /\ n - 1 \in 0 .. N
    BY <1>1
  <2> HIDE DEF N
  <2> QED
    BY <1>8, <2>1
<1> DEFINE Q == {n \in 0 .. N : ran[n] \in X}
<1>11. 0 \in Q
  BY <1>1, <1>8
<1>12. \A n \in 1 .. N : n - 1 \in Q => n \in Q
  <2> SUFFICES ASSUME NEW n \in 1 .. N, n - 1 \in Q PROVE n \in Q
    OBVIOUS
  <2>1. n \in 0 .. N /\ ran[n - 1] \in X
    BY <1>1
  <2> HIDE DEF X, Of
  <2> QED
    BY <1>2, <1>10, <2>1
<1>13. 0 .. N \subseteq Q
  <2> HIDE DEF Q, N
  <2> QED
    BY <1>1, <1>11, <1>12, InductionTo
<1>14. ran \in [0 .. N -> X] /\ ran[0] = dag
  <2>1. ran = [n \in 0 .. N |-> ran[n]]
    BY <1>8
  <2> QED
    BY <1>1, <1>8, <1>13, <2>1
<1> QED
  BY <1>9, <1>10, <1>14 DEF RunsBy, After

(* A plan in two parts: the second goes on where the first ended.          *)
LEMMA RanOfConcat ==
  ASSUME NEW s \in Seq(RunnableStep), NEW u \in Seq(RunnableStep), NEW dag \in DagState
  PROVE  /\ \A n \in 0 .. Len(s) : Ran(s \o u, dag)[n] = Ran(s, dag)[n]
         /\ After(s, dag) \in DagState
         /\ \A n \in 0 .. Len(u) :
              Ran(s \o u, dag)[Len(s) + n] = Ran(u, After(s, dag))[n]
         /\ After(s \o u, dag) = After(u, After(s, dag))
<1> DEFINE w == s \o u
           mid == After(s, dag)
           a == Ran(s, dag)
           b == Ran(u, mid)
           c == Ran(w, dag)
           L == Len(s)
           M == Len(u)
<1>1. /\ w \in Seq(RunnableStep) /\ Len(w) = L + M /\ L \in Nat /\ M \in Nat
      /\ \A i \in 1 .. L : w[i] = s[i]
      /\ \A i \in 1 .. M : w[L + i] = u[i] /\ L + i \in 1 .. Len(w)
  BY MembersOfConcat, LenProperties
<1>2. RunsBy(s, dag, a) /\ mid = a[L]
  BY RanIs
<1>3. mid \in DagState
  BY <1>1, <1>2 DEF RunsBy
<1>4. RunsBy(u, mid, b) /\ After(u, mid) = b[M]
  BY <1>3, RanIs
<1>5. RunsBy(w, dag, c) /\ After(w, dag) = c[Len(w)]
  BY <1>1, RanIs
<1> HIDE DEF w, mid, a, b, c, L, M
<1> DEFINE Q == {n \in 0 .. L : c[n] = a[n]}
           R == {n \in 0 .. M : c[L + n] = b[n]}
<1>6. \A n \in 0 .. L : c[n] = a[n]
  <2>1. 0 \in Q
    BY <1>1, <1>2, <1>5 DEF RunsBy
  <2>2. \A n \in 1 .. L : n - 1 \in Q => n \in Q
    <3> SUFFICES ASSUME NEW n \in 1 .. L, n - 1 \in Q PROVE n \in Q
      OBVIOUS
    <3>1. n \in 0 .. L /\ n \in 1 .. Len(w) /\ n \in 1 .. Len(s)
      BY <1>1 DEF L
    <3>2. c[n] = Effect(c[n - 1], w[n]) /\ a[n] = Effect(a[n - 1], s[n])
      BY <1>2, <1>5, <3>1 DEF RunsBy
    <3> QED
      BY <1>1, <3>1, <3>2
  <2>3. 0 .. L \subseteq Q
    <3> HIDE DEF Q
    <3> QED
      BY <1>1, <2>1, <2>2, InductionTo
  <2> QED
    BY <2>3
<1>7. \A n \in 0 .. M : c[L + n] = b[n]
  <2>1. 0 \in R
    BY <1>1, <1>2, <1>4, <1>6 DEF RunsBy
  <2>2. \A n \in 1 .. M : n - 1 \in R => n \in R
    <3> SUFFICES ASSUME NEW n \in 1 .. M, n - 1 \in R PROVE n \in R
      OBVIOUS
    <3>1. n \in 0 .. M /\ L + n \in 1 .. Len(w) /\ n \in 1 .. Len(u) /\ (L + n) - 1 = L + (n - 1)
      BY <1>1 DEF M
    <3>2. c[L + n] = Effect(c[(L + n) - 1], w[L + n])
      BY <1>5, <3>1 DEF RunsBy
    <3>3. b[n] = Effect(b[n - 1], u[n])
      BY <1>4, <3>1 DEF RunsBy
    <3> QED
      BY <1>1, <3>1, <3>2, <3>3
  <2>3. 0 .. M \subseteq R
    <3> HIDE DEF R
    <3> QED
      BY <1>1, <2>1, <2>2, InductionTo
  <2> QED
    BY <2>3
<1> QED
  BY <1>1, <1>3, <1>4, <1>5, <1>6, <1>7 DEF w, mid, a, b, c, L, M

(* The steps about one table leave the others alone.                       *)
EffectOn(dag, d, t, step) ==
  CASE step.op = "CreateStreamTable" -> d[t]
    [] step.op = "DropStreamTable" -> Absent
    [] step.op \in {"AlterStreamTable", "PauseImmediate", "ResumeImmediate"} ->
         IF dag[t] = Absent THEN Absent ELSE Coalesce(dag[t], step.args)
    [] OTHER -> dag[t]

(* A plan that touches only the tables T.                                  *)
TouchesOnly(s, T) ==
  \A i \in 1 .. Len(s) : s[i].op \in TableChanges \cup SwitchOps => s[i].table \in T

(* Steps about some tables can be run and touch no other table.            *)
LEMMA StepsRun ==
  ASSUME NEW d \in DagState, NEW T \in SUBSET Table
  PROVE  /\ TableStep(d, T) \subseteq RunnableStep
         /\ \A s \in Seq(TableStep(d, T)) : s \in Seq(RunnableStep) /\ TouchesOnly(s, T)
<1>1. TableStep(d, T) \subseteq RunnableStep
  BY DEF TableStep, RunnableStep
<1>2. ASSUME NEW s \in Seq(TableStep(d, T)) PROVE s \in Seq(RunnableStep) /\ TouchesOnly(s, T)
  <2>1. s \in Seq(RunnableStep)
    BY <1>1, SeqMonotonic
  <2>2. \A i \in 1 .. Len(s) : s[i] \in TableStep(d, T)
    OBVIOUS
  <2> QED
    BY <2>1, <2>2 DEF TouchesOnly, TableStep
<1> QED
  BY <1>1, <1>2

(* A step changes the table it is about as EffectOn says, and no other.    *)
LEMMA EffectOnTable ==
  ASSUME NEW d \in DagState, NEW T \in SUBSET Table, NEW dag \in DagState,
         NEW step \in TableStep(d, T)
  PROVE  /\ Effect(dag, step) \in DagState
         /\ step.table \in T
         /\ Effect(dag, step)[step.table] = EffectOn(dag, d, step.table, step)
         /\ \A u \in Table : u # step.table => Effect(dag, step)[u] = dag[u]
<1>1. step \in RunnableStep /\ step.table \in T /\ step.table \in Table
      /\ (step.op = "CreateStreamTable" => step.args = d[step.table])
  BY StepsRun DEF TableStep
<1>2. Effect(dag, step) \in DagState
  BY <1>1, EffectIsDag
<1>3. dag = [u \in Table |-> dag[u]]
  BY DEF DagState
<1>4. CASE step.op = "CreateStreamTable"
  BY <1>1, <1>2, <1>3, <1>4 DEF Effect, CreateTable, EffectOn
<1>5. CASE step.op = "DropStreamTable"
  BY <1>1, <1>2, <1>3, <1>5 DEF Effect, DropTable, EffectOn
<1>6. CASE step.op \in {"AlterStreamTable", "PauseImmediate", "ResumeImmediate"}
  <2>1. CASE dag[step.table] = Absent
    BY <1>1, <1>2, <1>3, <1>6, <2>1 DEF Effect, AlterTable, EffectOn
  <2>2. CASE dag[step.table] # Absent
    BY <1>1, <1>2, <1>3, <1>6, <2>2 DEF Effect, AlterTable, EffectOn
  <2> QED
    BY <2>1, <2>2
<1>7. CASE step.op \notin {"CreateStreamTable", "DropStreamTable", "AlterStreamTable",
                           "PauseImmediate", "ResumeImmediate"}
  BY <1>1, <1>2, <1>3, <1>7 DEF Effect, EffectOn
<1> QED
  BY <1>1, <1>2, <1>4, <1>5, <1>6, <1>7

(* A step leaves alone the tables it does not touch.                       *)
LEMMA EffectAside ==
  ASSUME NEW T, NEW dag \in DagState, NEW step \in RunnableStep,
         step.op \in TableChanges \cup SwitchOps => step.table \in T
  PROVE  \A u \in Table \ T : Effect(dag, step)[u] = dag[u]
<1> SUFFICES ASSUME NEW u \in Table \ T PROVE Effect(dag, step)[u] = dag[u]
  OBVIOUS
<1>1. dag = [v \in Table |-> dag[v]]
  BY DEF DagState
<1>2. CASE step.op \in TableChanges \cup SwitchOps
  <2>1. step.table # u
    BY <1>2
  <2> QED
    BY <1>1, <1>2, <2>1
       DEF Effect, CreateTable, DropTable, AlterTable, TableChanges, SwitchOps
<1>3. CASE step.op \notin TableChanges \cup SwitchOps
  BY <1>3 DEF Effect, TableChanges, SwitchOps
<1> QED
  BY <1>2, <1>3

(* So does a sequence of steps, at each place.                             *)
LEMMA RanAside ==
  ASSUME NEW T, NEW s \in Seq(RunnableStep), TouchesOnly(s, T), NEW dag \in DagState
  PROVE  /\ RunsBy(s, dag, Ran(s, dag))
         /\ After(s, dag) = Ran(s, dag)[Len(s)] /\ After(s, dag) \in DagState
         /\ \A n \in 0 .. Len(s) : \A u \in Table \ T : Ran(s, dag)[n][u] = dag[u]
<1> DEFINE ran == Ran(s, dag)
           Q == {n \in 0 .. Len(s) : \A u \in Table \ T : ran[n][u] = dag[u]}
<1>2. RunsBy(s, dag, ran) /\ After(s, dag) = ran[Len(s)]
  BY RanIs
<1>3. Len(s) \in Nat /\ \A n \in 1 .. Len(s) : s[n] \in RunnableStep
  OBVIOUS
<1> HIDE DEF ran
<1>4. 0 \in Q
  BY <1>2, <1>3 DEF RunsBy
<1>5. \A n \in 1 .. Len(s) : n - 1 \in Q => n \in Q
  <2> SUFFICES ASSUME NEW n \in 1 .. Len(s), n - 1 \in Q, NEW u \in Table \ T
               PROVE  n \in 0 .. Len(s) /\ ran[n][u] = dag[u]
    OBVIOUS
  <2>1. n \in 0 .. Len(s) /\ n - 1 \in 0 .. Len(s)
    BY <1>3
  <2>2. ran[n - 1] \in DagState /\ ran[n] = Effect(ran[n - 1], s[n])
    BY <1>2, <2>1 DEF RunsBy
  <2>3. s[n] \in RunnableStep /\ (s[n].op \in TableChanges \cup SwitchOps => s[n].table \in T)
    BY <1>3 DEF TouchesOnly
  <2>4. ran[n][u] = ran[n - 1][u]
    <3> DEFINE old == ran[n - 1]
               step == s[n]
    <3>1. old \in DagState /\ step \in RunnableStep /\ ran[n] = Effect(old, step)
          /\ (step.op \in TableChanges \cup SwitchOps => step.table \in T)
      BY <2>2, <2>3
    <3> HIDE DEF old, step
    <3>2. Effect(old, step)[u] = old[u]
      BY <3>1, EffectAside
    <3> QED
      BY <3>1, <3>2 DEF old
  <2> QED
    BY <2>1, <2>4
<1>6. 0 .. Len(s) \subseteq Q
  <2> HIDE DEF Q
  <2> QED
    BY <1>3, <1>4, <1>5, InductionTo
<1>7. ran[Len(s)] \in DagState
  BY <1>2, <1>3 DEF RunsBy
<1> QED
  BY <1>2, <1>6, <1>7 DEF ran

(* The same of steps about some tables.                                    *)
LEMMA TableStepsRan ==
  ASSUME NEW d \in DagState, NEW T \in SUBSET Table, NEW s \in Seq(TableStep(d, T)),
         NEW dag \in DagState
  PROVE  /\ s \in Seq(RunnableStep) /\ RunsBy(s, dag, Ran(s, dag))
         /\ After(s, dag) = Ran(s, dag)[Len(s)] /\ After(s, dag) \in DagState
         /\ \A n \in 0 .. Len(s) : \A u \in Table \ T : Ran(s, dag)[n][u] = dag[u]
<1>1. s \in Seq(RunnableStep) /\ TouchesOnly(s, T)
  BY StepsRun
<1> QED
  BY <1>1, RanAside

(* One step further on one table.                                          *)
LEMMA RanOnTable ==
  ASSUME NEW d \in DagState, NEW t \in Table, NEW s \in Seq(TableStep(d, {t})),
         NEW dag \in DagState
  PROVE  /\ Ran(s, dag)[0][t] = dag[t]
         /\ \A n \in 1 .. Len(s) :
              Ran(s, dag)[n][t] = EffectOn(Ran(s, dag)[n - 1], d, t, s[n])
<1>1. RunsBy(s, dag, Ran(s, dag))
  BY TableStepsRan
<1>2. ASSUME NEW n \in 1 .. Len(s)
      PROVE  Ran(s, dag)[n][t] = EffectOn(Ran(s, dag)[n - 1], d, t, s[n])
  <2>1. /\ n - 1 \in 0 .. Len(s) /\ Ran(s, dag)[n - 1] \in DagState
        /\ Ran(s, dag)[n] = Effect(Ran(s, dag)[n - 1], s[n])
    BY <1>1 DEF RunsBy
  <2>2. s[n] \in TableStep(d, {t})
    OBVIOUS
  <2>3. s[n].table = t
    BY <2>2 DEF TableStep
  <2> QED
    BY <2>1, <2>2, <2>3, EffectOnTable
<1> QED
  BY <1>1, <1>2 DEF RunsBy

-----------------------------------------------------------------------------
(* What becomes of a table when all the steps of its change succeed.       *)
Rebuilt(spec, old) ==
  IF old.refresh = "IMMEDIATE" THEN [spec EXCEPT !.refresh = "IMMEDIATE"] ELSE spec

Outcome(d, l, t, c) ==
  LET kind == DeltaKind(d, l, t) IN
  CASE kind = "Unchanged" -> l[t]
    [] kind = "Create" -> d[t]
    [] kind = "Drop" -> Absent
    [] kind = "AlterQuery" ->
         IF c = "InPlace" THEN [l[t] EXCEPT !.query = d[t].query] ELSE Rebuilt(d[t], l[t])
    [] OTHER ->
         IF c = "Rebuild" THEN Rebuilt(d[t], l[t])
         ELSE [d[t] EXCEPT !.cdc = OrElse(d[t].cdc, l[t].cdc)]

(* The value of t after each step of a tuple.                              *)
LEMMA QuietOnTable ==
  ASSUME NEW d, NEW dag, NEW t, NEW op \in QuietOps
  PROVE  EffectOn(dag, d, t, DoOn(op, t)) = dag[t]
BY DEF EffectOn, DoOn, QuietOps

(* The value of the table after a drop, a create, an alter and a resume.   *)
LEMMA OtherOnTable ==
  ASSUME NEW d \in DagState, NEW dag \in DagState, NEW t \in Table
  PROVE  /\ EffectOn(dag, d, t, Drop(t)) = Absent
         /\ EffectOn(dag, d, t, Create(t, d[t])) = d[t]
         /\ \A args : EffectOn(dag, d, t, DoWith("AlterStreamTable", t, args)) =
                        IF dag[t] = Absent THEN Absent ELSE Coalesce(dag[t], args)
         /\ dag[t] \in TableSpec =>
              EffectOn(dag, d, t, Resume(t)) = [dag[t] EXCEPT !.refresh = "IMMEDIATE"]
<1>1. EffectOn(dag, d, t, Drop(t)) = Absent
  BY DEF EffectOn, Drop, DoOn
<1>2. EffectOn(dag, d, t, Create(t, d[t])) = d[t]
  BY DEF EffectOn, Create, DoWith
<1>3. \A args : EffectOn(dag, d, t, DoWith("AlterStreamTable", t, args)) =
                  IF dag[t] = Absent THEN Absent ELSE Coalesce(dag[t], args)
  BY DEF EffectOn, DoWith
<1>4. ASSUME dag[t] \in TableSpec
      PROVE  EffectOn(dag, d, t, Resume(t)) = [dag[t] EXCEPT !.refresh = "IMMEDIATE"]
  <2>1. Absent \notin TableSpec /\ None \notin RefreshMode
    BY NullAssumption
  <2>2. EffectOn(dag, d, t, Resume(t)) = Coalesce(dag[t], [NoArgs EXCEPT !.refresh = "IMMEDIATE"])
    BY <1>4, <2>1 DEF EffectOn, Resume, DoWith
  <2>3. Coalesce(dag[t], [NoArgs EXCEPT !.refresh = "IMMEDIATE"]) =
          [query |-> dag[t].query, schedule |-> dag[t].schedule,
           refresh |-> "IMMEDIATE", cdc |-> dag[t].cdc]
    BY <2>1 DEF Coalesce, OrElse, NoArgs, RefreshMode
  <2> QED
    BY <1>4, <2>2, <2>3 DEF TableSpec
<1> QED
  BY <1>1, <1>2, <1>3, <1>4

(* A rebuild brings the spec, but for a mode that it sets back.            *)
LEMMA AfterRebuild ==
  ASSUME NEW d \in DagState, NEW t \in Table, NEW l \in DagState, NEW first \in BOOLEAN,
         d[t] # Absent, NEW dag \in DagState,
         RebuildSteps(t, d[t], l[t], first) \in Seq(TableStep(d, {t}))
  PROVE  After(RebuildSteps(t, d[t], l[t], first), dag)[t] = Rebuilt(d[t], l[t])
<1> DEFINE s == RebuildSteps(t, d[t], l[t], first)
           w == DoOn("WaitForRefresh", t)
           v == DoOn("ValidateQuery", t)
           p == Pause(t)
           r == Resume(t)
           x == Drop(t)
           y == Create(t, d[t])
           z == DoOn("RecreatePolicy", t)
           b == DoOn("Backfill", t)
           ran == Ran(s, dag)
<1>1. /\ RunsBy(s, dag, ran) /\ After(s, dag) = ran[Len(s)]
  BY TableStepsRan
<1>2. \A n \in 1 .. Len(s) : ran[n][t] = EffectOn(ran[n - 1], d, t, s[n])
  BY RanOnTable
<1>3. d[t] \in TableSpec
  BY DEF DagState
<1>4. \A n \in 0 .. Len(s) : ran[n] \in DagState
  BY <1>1 DEF RunsBy
<1>5. ASSUME NEW old \in DagState
      PROVE  /\ EffectOn(old, d, t, y) = d[t]
             /\ EffectOn(old, d, t, z) = old[t] /\ EffectOn(old, d, t, b) = old[t]
             /\ old[t] = d[t] =>
                  EffectOn(old, d, t, r) = [d[t] EXCEPT !.refresh = "IMMEDIATE"]
  BY <1>3, OtherOnTable, QuietOnTable DEF QuietOps
<1>6. s = IF l[t].refresh = "IMMEDIATE"
          THEN IF first THEN <<v, p, w, x, y, z, b, r>> ELSE <<p, w, v, x, y, z, b, r>>
          ELSE IF first THEN <<v, w, x, y, z, b>> ELSE <<w, v, x, y, z, b>>
  BY RebuildIs
<1> SUFFICES After(s, dag)[t] = Rebuilt(d[t], l[t])
  OBVIOUS
<1> HIDE DEF w, v, p, r, x, y, z, b, ran, s
<1>7. CASE l[t].refresh = "IMMEDIATE"
  <2>1. Len(s) = 8 /\ s[5] = y /\ s[6] = z /\ s[7] = b /\ s[8] = r
    BY <1>6, <1>7
  <2>2. ran[5][t] = d[t]
    <3>1. ran[5][t] = EffectOn(ran[4], d, t, y) /\ ran[4] \in DagState
      BY <1>2, <1>4, <2>1
    <3> QED
      BY <1>5, <3>1
  <2>3. ran[6][t] = d[t]
    <3>1. ran[6][t] = EffectOn(ran[5], d, t, z) /\ ran[5] \in DagState
      BY <1>2, <1>4, <2>1
    <3> QED
      BY <1>5, <2>2, <3>1
  <2>4. ran[7][t] = d[t]
    <3>1. ran[7][t] = EffectOn(ran[6], d, t, b) /\ ran[6] \in DagState
      BY <1>2, <1>4, <2>1
    <3> QED
      BY <1>5, <2>3, <3>1
  <2>5. ran[8][t] = [d[t] EXCEPT !.refresh = "IMMEDIATE"]
    <3>1. ran[8][t] = EffectOn(ran[7], d, t, r) /\ ran[7] \in DagState
      BY <1>2, <1>4, <2>1
    <3> QED
      BY <1>5, <2>4, <3>1
  <2> QED
    BY <1>1, <1>7, <2>1, <2>5 DEF Rebuilt
<1>8. CASE l[t].refresh # "IMMEDIATE"
  <2>1. Len(s) = 6 /\ s[4] = y /\ s[5] = z /\ s[6] = b
    BY <1>6, <1>8
  <2>2. ran[4][t] = d[t]
    <3>1. ran[4][t] = EffectOn(ran[3], d, t, y) /\ ran[3] \in DagState
      BY <1>2, <1>4, <2>1
    <3> QED
      BY <1>5, <3>1
  <2>3. ran[5][t] = d[t]
    <3>1. ran[5][t] = EffectOn(ran[4], d, t, z) /\ ran[4] \in DagState
      BY <1>2, <1>4, <2>1
    <3> QED
      BY <1>5, <2>2, <3>1
  <2>4. ran[6][t] = d[t]
    <3>1. ran[6][t] = EffectOn(ran[5], d, t, b) /\ ran[5] \in DagState
      BY <1>2, <1>4, <2>1
    <3> QED
      BY <1>5, <2>3, <3>1
  <2> QED
    BY <1>1, <1>8, <2>1, <2>4 DEF Rebuilt
<1> QED
  BY <1>7, <1>8

(* What the two alters of the planner leave of a spec.                     *)
LEMMA CoalesceIs ==
  ASSUME NEW spec \in TableSpec, NEW old \in TableSpec
  PROVE  /\ Coalesce(old, QueryArgs(spec)) = [old EXCEPT !.query = spec.query]
         /\ spec.query = old.query =>
              Coalesce(old, MetadataArgs(spec, old)) =
                [spec EXCEPT !.cdc = OrElse(spec.cdc, old.cdc)]
<1>1. None \notin Query /\ None \notin Schedule /\ None \notin RefreshMode
  BY NullAssumption
<1>2. Coalesce(old, QueryArgs(spec)) = [old EXCEPT !.query = spec.query]
  <2>1. Coalesce(old, QueryArgs(spec)) =
          [query |-> spec.query, schedule |-> old.schedule, refresh |-> old.refresh,
           cdc |-> old.cdc]
    BY <1>1 DEF Coalesce, OrElse, QueryArgs, NoArgs, TableSpec
  <2> QED
    BY <2>1 DEF TableSpec
<1>3. ASSUME spec.query = old.query
      PROVE  Coalesce(old, MetadataArgs(spec, old)) =
               [spec EXCEPT !.cdc = OrElse(spec.cdc, old.cdc)]
  <2> DEFINE args == MetadataArgs(spec, old)
  <2>1. /\ args.query = None
        /\ args.schedule = IF spec.schedule # old.schedule THEN spec.schedule ELSE None
        /\ args.refresh = IF spec.refresh # old.refresh THEN spec.refresh ELSE None
        /\ args.cdc = IF spec.cdc # old.cdc THEN spec.cdc ELSE None
    BY MetadataIs
  <2> HIDE DEF args
  <2>2. /\ OrElse(args.query, old.query) = spec.query
        /\ OrElse(args.schedule, old.schedule) = spec.schedule
        /\ OrElse(args.refresh, old.refresh) = spec.refresh
        /\ OrElse(args.cdc, old.cdc) = OrElse(spec.cdc, old.cdc)
    BY <1>1, <1>3, <2>1 DEF OrElse, TableSpec
  <2>3. Coalesce(old, args) =
          [query |-> spec.query, schedule |-> spec.schedule, refresh |-> spec.refresh,
           cdc |-> OrElse(spec.cdc, old.cdc)]
    BY <2>2 DEF Coalesce
  <2> QED
    BY <2>3 DEF TableSpec, args
<1> QED
  BY <1>2, <1>3

(* The tables after one piece, whatever was done to other tables before.   *)
LEMMA AfterPiece ==
  ASSUME NEW d \in DagState, NEW l \in DagState, NEW t \in Table, NEW c,
         NEW dag \in DagState, dag[t] = l[t]
  PROVE  After(StepsFor(d, l, t, c), dag)[t] = Outcome(d, l, t, c)
<1> DEFINE s == StepsFor(d, l, t, c)
           kind == DeltaKind(d, l, t)
           ran == Ran(s, dag)
<1> SUFFICES After(s, dag)[t] = Outcome(d, l, t, c)
  OBVIOUS
<1>1. s \in Seq(TableStep(d, {t})) /\ Len(s) \in Nat
  BY PieceSteps, LenProperties
<1>2. RunsBy(s, dag, ran) /\ After(s, dag) = ran[Len(s)]
  BY <1>1, TableStepsRan
<1>3. ran[0][t] = dag[t] /\ \A n \in 1 .. Len(s) : ran[n][t] = EffectOn(ran[n - 1], d, t, s[n])
  BY <1>1, RanOnTable
<1>4. \A n \in 0 .. Len(s) : ran[n] \in DagState
  BY <1>2 DEF RunsBy
<1> HIDE DEF ran
<1>5. CASE kind = "Unchanged" /\ s = <<>>
  <2>1. Len(s) = 0
    BY <1>5
  <2> QED
    BY <1>2, <1>3, <1>5, <2>1 DEF Outcome
<1>6. CASE kind = "Create" /\ s = CreateSteps(t, d[t])
  <2>1. Len(s) = 3 /\ s[2] = Create(t, d[t]) /\ s[3] = DoOn("Backfill", t)
    BY <1>6 DEF CreateSteps, Create
  <2>2. ran[2][t] = EffectOn(ran[1], d, t, s[2]) /\ ran[3][t] = EffectOn(ran[2], d, t, s[3])
        /\ ran[1] \in DagState /\ ran[2] \in DagState
    BY <1>3, <1>4, <2>1
  <2>3. ran[3][t] = d[t]
    BY <2>1, <2>2, OtherOnTable, QuietOnTable DEF QuietOps
  <2> QED
    BY <1>2, <1>6, <2>1, <2>3 DEF Outcome
<1>7. CASE kind = "Drop" /\ s = DropSteps(t, l[t])
  <2>1. /\ Len(s) = 2 \/ Len(s) = 3
        /\ s[Len(s)] = Drop(t)
    <3>1. s = CASE l[t].cdc = "outbox" -> <<DoOn("WaitForRefresh", t), DoOn("DetachOutbox", t), Drop(t)>>
                [] l[t].cdc = "wal" -> <<DoOn("WaitForRefresh", t), DoOn("ManageWalSlot", t), Drop(t)>>
                [] OTHER -> <<DoOn("WaitForRefresh", t), Drop(t)>>
      BY <1>7, DropIs
    <3> HIDE DEF s
    <3> QED
      BY <3>1
  <2>2. ran[Len(s)][t] = EffectOn(ran[Len(s) - 1], d, t, s[Len(s)]) /\ ran[Len(s) - 1] \in DagState
    <3> HIDE DEF s
    <3>1. Len(s) \in 1 .. Len(s) /\ Len(s) - 1 \in 0 .. Len(s)
      <4> DEFINE n == Len(s)
      <4>1. n = 2 \/ n = 3
        BY <2>1
      <4> HIDE DEF n
      <4>2. n \in 1 .. n /\ n - 1 \in 0 .. n
        BY <4>1
      <4> QED
        BY <4>2 DEF n
    <3> QED
      BY <1>3, <1>4, <3>1
  <2>3. ran[Len(s)][t] = Absent
    BY <2>1, <2>2, OtherOnTable
  <2> QED
    BY <1>2, <1>7, <2>3 DEF Outcome
<1>8. CASE kind \in MetadataKinds /\ c # "Rebuild" /\ s = Altered(d, l, t)
  <2>1. /\ d[t] \in TableSpec /\ l[t] \in TableSpec /\ d[t].query = l[t].query
        /\ l[t] # Absent
    BY <1>8, KindSays DEF DagState
  <2>2. Len(s) = 1 /\ s[1] = DoWith("AlterStreamTable", t, MetadataArgs(d[t], l[t]))
    BY <1>8 DEF Altered
  <2>3. ran[1][t] = EffectOn(ran[0], d, t, s[1]) /\ ran[0] \in DagState /\ ran[0][t] = l[t]
    BY <1>3, <1>4, <2>2
  <2>4. ran[1][t] = Coalesce(l[t], MetadataArgs(d[t], l[t]))
    BY <2>1, <2>2, <2>3, OtherOnTable
  <2>5. ran[1][t] = [d[t] EXCEPT !.cdc = OrElse(d[t].cdc, l[t].cdc)]
    BY <2>1, <2>4, CoalesceIs
  <2> QED
    BY <1>2, <1>8, <2>2, <2>5 DEF Outcome, MetadataKinds
<1>9. CASE kind = "AlterQuery" /\ c = "InPlace" /\ s = Requeried(d, t)
  <2>1. d[t] \in TableSpec /\ l[t] \in TableSpec /\ l[t] # Absent
    BY <1>9, KindSays DEF DagState
  <2>2. /\ Len(s) = 3 /\ s[1] = DoOn("ValidateQuery", t) /\ s[3] = DoOn("Backfill", t)
        /\ s[2] = DoWith("AlterStreamTable", t, QueryArgs(d[t]))
    BY <1>9 DEF Requeried
  <2>3. /\ ran[1][t] = EffectOn(ran[0], d, t, s[1]) /\ ran[0] \in DagState /\ ran[0][t] = l[t]
        /\ ran[2][t] = EffectOn(ran[1], d, t, s[2]) /\ ran[1] \in DagState
        /\ ran[3][t] = EffectOn(ran[2], d, t, s[3]) /\ ran[2] \in DagState
    BY <1>3, <1>4, <2>2
  <2>4. ran[1][t] = l[t]
    BY <2>2, <2>3, QuietOnTable DEF QuietOps
  <2>5. ran[2][t] = Coalesce(l[t], QueryArgs(d[t]))
    BY <2>1, <2>2, <2>3, <2>4, OtherOnTable
  <2>6. ran[3][t] = [l[t] EXCEPT !.query = d[t].query]
    BY <2>1, <2>2, <2>3, <2>5, CoalesceIs, QuietOnTable DEF QuietOps
  <2> QED
    BY <1>2, <1>9, <2>2, <2>6 DEF Outcome
<1>10. CASE kind = "AlterQuery" /\ c # "InPlace" /\ s = RebuildSteps(t, d[t], l[t], TRUE)
  <2>1. d[t] # Absent
    BY <1>10, KindSays
  <2>2. After(s, dag)[t] = Rebuilt(d[t], l[t])
    <3>1. TRUE \in BOOLEAN
      OBVIOUS
    <3>2. RebuildSteps(t, d[t], l[t], TRUE) \in Seq(TableStep(d, {t}))
      BY <1>1, <1>10
    <3>3. After(RebuildSteps(t, d[t], l[t], TRUE), dag)[t] = Rebuilt(d[t], l[t])
      BY <2>1, <3>1, <3>2, AfterRebuild
    <3> QED
      BY <1>10, <3>3
  <2> QED
    BY <1>10, <2>2 DEF Outcome
<1>11. CASE kind \in MetadataKinds /\ c = "Rebuild" /\ s = RebuildSteps(t, d[t], l[t], FALSE)
  <2>1. d[t] # Absent
    BY <1>11, KindSays
  <2>2. After(s, dag)[t] = Rebuilt(d[t], l[t])
    <3>1. FALSE \in BOOLEAN
      OBVIOUS
    <3>2. RebuildSteps(t, d[t], l[t], FALSE) \in Seq(TableStep(d, {t}))
      BY <1>1, <1>11
    <3>3. After(RebuildSteps(t, d[t], l[t], FALSE), dag)[t] = Rebuilt(d[t], l[t])
      BY <2>1, <3>1, <3>2, AfterRebuild
    <3> QED
      BY <1>11, <3>3
  <2> QED
    BY <1>11, <2>2 DEF Outcome, MetadataKinds
<1>12. \/ kind = "Unchanged" /\ s = <<>>
       \/ kind = "Create" /\ s = CreateSteps(t, d[t])
       \/ kind = "Drop" /\ s = DropSteps(t, l[t])
       \/ kind \in MetadataKinds /\ c # "Rebuild" /\ s = Altered(d, l, t)
       \/ kind = "AlterQuery" /\ c = "InPlace" /\ s = Requeried(d, t)
       \/ kind = "AlterQuery" /\ c # "InPlace" /\ s = RebuildSteps(t, d[t], l[t], TRUE)
       \/ kind \in MetadataKinds /\ c = "Rebuild" /\ s = RebuildSteps(t, d[t], l[t], FALSE)
  BY PieceIs
<1> HIDE DEF s, kind
<1> QED
  BY <1>5, <1>6, <1>7, <1>8, <1>9, <1>10, <1>11, <1>12

-----------------------------------------------------------------------------
(* The tables a plan changes, in the order in which it changes them.       *)
InOrder(d, l) == Keep(OrderDeltas(d, l), Changed(d, l))

ReadersLater(d, l, tables) ==
  \A i \in 1 .. Len(tables) : \A u \in Upstream(d, tables[i]) \cap Changed(d, l) :
    \E j \in 1 .. i - 1 : tables[j] = u

(* Only a table of the files or of the database is changed.                *)
LEMMA ChangedExist ==
  ASSUME NEW d, NEW l
  PROVE  Changed(d, l) \in SUBSET Table
         /\ Changed(d, l) \subseteq Existing(d) \cup (Existing(l) \ Existing(d))
BY DEF Changed, Existing, DeltaKind

(* The order has each of its tables once, after the changed tables that it *)
(* reads; and has every changed table unless there is a cycle.             *)
LEMMA TablesInOrder ==
  ASSUME NEW d, NEW l
  PROVE  /\ InOrder(d, l) \in Seq(Changed(d, l)) /\ Distinct(InOrder(d, l))
         /\ ReadersLater(d, l, InOrder(d, l))
         /\ Sortable(d) => ToSet(InOrder(d, l)) = Changed(d, l)
<1> DEFINE A == TopologicalSort(d)
           B == Keep(NameOrder, Existing(l) \ Existing(d))
           s == A \o B
           C == Changed(d, l)
           ts == InOrder(d, l)
<1>1. Finished(d, A)
  BY SortFinishes
<1>2. A \in Seq(Existing(d)) /\ Distinct(A)
  BY <1>1 DEF Finished
<1>3. Existing(d) \subseteq Table /\ Existing(l) \ Existing(d) \in SUBSET Table
  BY DEF Existing
<1>4. A \in Seq(Table) /\ ToSet(A) \subseteq Existing(d)
  <2> HIDE DEF A
  <2> QED
    BY <1>2, <1>3, SeqMonotonic, Members
<1>5. Lists(B, Existing(l) \ Existing(d))
  BY <1>3, TablesListed
<1>6. /\ B \in Seq(Existing(l) \ Existing(d)) /\ Distinct(B)
      /\ ToSet(B) = Existing(l) \ Existing(d)
  <2> HIDE DEF B
  <2> QED
    BY <1>5, ListedSet
<1>7. B \in Seq(Table)
  <2> HIDE DEF B
  <2> QED
    BY <1>3, <1>6, SeqMonotonic
<1>8. /\ s \in Seq(Table) /\ Distinct(s) /\ ToSet(s) = ToSet(A) \cup ToSet(B)
      /\ \A i \in 1 .. Len(A) : s[i] = A[i] /\ i \in 1 .. Len(s)
      /\ \A i \in 1 .. Len(s) : i \in 1 .. Len(A) \/ i - Len(A) \in 1 .. Len(B)
      /\ \A i \in 1 .. Len(B) : s[Len(A) + i] = B[i]
  <2>1. ToSet(A) \cap ToSet(B) = {}
    <3> HIDE DEF A, B
    <3> QED
      BY <1>4, <1>6
  <2> HIDE DEF A, B
  <2> QED
    BY <1>2, <1>4, <1>6, <1>7, <2>1, MembersOfConcat
<1>9. OrderDeltas(d, l) = s
  BY DEF OrderDeltas
<1>10. Len(A) \in Nat /\ Len(s) \in Nat
  <2> HIDE DEF A, s
  <2> QED
    BY <1>2, <1>8, LenProperties
<1> HIDE DEF A, B, s
<1>11. C \in SUBSET Table /\ C \subseteq Existing(d) \cup (Existing(l) \ Existing(d))
  BY ChangedExist
<1>12. Lists(s, ToSet(s))
  <2>1. \A i \in 1 .. Len(s) : s[i] \in ToSet(s)
    BY <1>8, Members
  <2>2. s \in Seq(ToSet(s))
    BY <1>8, <1>10, <2>1, SeqDef
  <2>3. \A x \in ToSet(s) : \E i \in 1 .. Len(s) : s[i] = x
    BY <1>8, Members
  <2> QED
    BY <1>8, <2>2, <2>3 DEF Lists, Distinct
<1>13. ts = Keep(s, C)
  BY <1>9 DEF InOrder
<1>14. Lists(ts, ToSet(s) \cap C)
  BY <1>12, <1>13, KeepLists
<1>15. ts \in Seq(ToSet(s) \cap C) /\ Distinct(ts) /\ ToSet(ts) = ToSet(s) \cap C
  BY <1>14, ListedSet
<1>16. ts \in Seq(C)
  <2>1. ToSet(s) \cap C \subseteq C
    OBVIOUS
  <2> HIDE DEF ts, C
  <2> QED
    BY <1>15, <2>1, SeqMonotonic
<1>17. PICK sel : Kept(s, C, ts, sel)
  BY <1>8, <1>13, KeptPlaces
<1> HIDE DEF ts, C
<1>18. Len(ts) \in Nat
  BY <1>16, LenProperties
<1>19. ASSUME NEW i \in 1 .. Len(ts), NEW u \in Upstream(d, ts[i]) \cap C
       PROVE  \E j \in 1 .. i - 1 : ts[j] = u
  <2>1. sel[i] \in 1 .. Len(s) /\ ts[i] = s[sel[i]] /\ u \in C
    BY <1>17, <1>19 DEF Kept
  <2>2. u \in Existing(d) /\ d[ts[i]] # Absent /\ u \in Upstream(d, ts[i])
    BY <1>19 DEF Upstream, DependsOn
  <2>3. sel[i] \in 1 .. Len(A)
    <3> DEFINE m == sel[i]
    <3>1. m \in 1 .. Len(A) \/ m - Len(A) \in 1 .. Len(B)
      BY <1>8, <2>1
    <3>2. ASSUME m - Len(A) \in 1 .. Len(B) PROVE FALSE
      <4>1. s[Len(A) + (m - Len(A))] = B[m - Len(A)] /\ Len(A) + (m - Len(A)) = m
        BY <1>8, <1>10, <2>1, <3>2
      <4>2. B[m - Len(A)] \in Existing(l) \ Existing(d)
        BY <1>6, <3>2, Members
      <4>3. ts[i] \notin Existing(d) /\ ts[i] \in Table
        BY <1>3, <2>1, <4>1, <4>2
      <4> QED
        BY <2>2, <4>3 DEF Existing
    <3> QED
      BY <3>1, <3>2
  <2>4. PICK k \in 1 .. sel[i] - 1 : A[k] = u
    <3> DEFINE m == sel[i]
    <3>1. m \in 1 .. Len(A) /\ A[m] = ts[i] /\ u \in Upstream(d, A[m])
      BY <1>8, <2>1, <2>2, <2>3
    <3> HIDE DEF m
    <3>2. \A v \in Upstream(d, A[m]) : \E k \in 1 .. m - 1 : A[k] = v
      BY <1>1, <3>1 DEF Finished
    <3> QED
      BY <3>1, <3>2 DEF m
  <2>5. k \in 1 .. Len(A) /\ k < sel[i]
    BY <1>10, <2>3
  <2>6. k \in 1 .. Len(s) /\ s[k] = u
    BY <1>8, <2>4, <2>5
  <2>7. PICK j \in 1 .. Len(ts) : sel[j] = k
    BY <1>17, <2>1, <2>6 DEF Kept
  <2>8. ~(i < j) /\ i # j
    <3>1. i < j => sel[i] < sel[j]
      BY <1>17 DEF Kept
    <3>2. sel[j] < sel[i] /\ sel[i] \in Nat /\ sel[j] \in Nat
      BY <1>10, <2>1, <2>5, <2>7
    <3> QED
      BY <3>1, <3>2
  <2>9. j \in 1 .. i - 1
    BY <1>18, <2>8
  <2>10. ts[j] = u
    BY <1>17, <2>6, <2>7 DEF Kept
  <2> QED
    BY <2>9, <2>10
<1>20. ASSUME Sortable(d) PROVE ToSet(ts) = C
  <2>1. Existing(d) \subseteq ToSet(A)
    BY <1>20, SortableLists DEF A
  <2> QED
    BY <1>6, <1>8, <1>11, <1>15, <2>1
<1> QED
  BY <1>15, <1>16, <1>19, <1>20 DEF ReadersLater, ts, C

-----------------------------------------------------------------------------
(* The steps of a plan, table by table.                                    *)
Piece(d, l, order, n) ==
  StepsFor(d, l, InOrder(d, l)[n], Promoted(d, l, order)[InOrder(d, l)[n]])

BuildsBy(d, l, order, upTo) ==
  /\ upTo \in [0 .. Len(InOrder(d, l)) -> Seq(TableStep(d, Table))]
  /\ upTo[0] = <<>>
  /\ \A n \in 1 .. Len(InOrder(d, l)) :
       n - 1 \in 0 .. Len(InOrder(d, l)) /\ upTo[n] = upTo[n - 1] \o Piece(d, l, order, n)
  /\ BuildPlanInOrder(d, l, order) =
       UnderLock(When("pre" \in Hooks, <<Do("RunHook")>>)
                 \o upTo[Len(InOrder(d, l))]
                 \o When("post" \in Hooks, <<Do("RunHook")>>))

(* Steps about some tables are steps about more tables.                    *)
LEMMA StepsWiden ==
  ASSUME NEW d, NEW T, NEW U, T \subseteq U
  PROVE  /\ TableStep(d, T) \subseteq TableStep(d, U)
         /\ \A s \in Seq(TableStep(d, T)) : s \in Seq(TableStep(d, U))
<1>1. TableStep(d, T) \subseteq TableStep(d, U)
  BY DEF TableStep
<1> QED
  BY <1>1, SeqMonotonic

(* A piece is about its table.                                             *)
LEMMA PieceOfTable ==
  ASSUME NEW d \in DagState, NEW l \in DagState, NEW order, NEW n \in 1 .. Len(InOrder(d, l))
  PROVE  /\ InOrder(d, l)[n] \in Table /\ InOrder(d, l)[n] \in Changed(d, l)
         /\ Piece(d, l, order, n) \in Seq(TableStep(d, {InOrder(d, l)[n]}))
         /\ Piece(d, l, order, n) \in Seq(TableStep(d, Table))
<1> DEFINE t == InOrder(d, l)[n]
           p == Piece(d, l, order, n)
<1>1. t \in Changed(d, l) /\ t \in Table
  <2>1. InOrder(d, l) \in Seq(Changed(d, l)) /\ Changed(d, l) \in SUBSET Table
    BY TablesInOrder, ChangedExist
  <2> QED
    BY <2>1
<1>2. p = StepsFor(d, l, t, Promoted(d, l, order)[t])
  BY DEF Piece
<1> HIDE DEF t, p
<1>3. p \in Seq(TableStep(d, {t}))
  BY <1>1, <1>2, PieceSteps
<1>4. {t} \subseteq Table
  BY <1>1
<1>5. p \in Seq(TableStep(d, Table))
  BY <1>3, <1>4, StepsWiden
<1> QED
  BY <1>1, <1>3, <1>5 DEF t, p

(* The plan is built of its pieces by recursion.                           *)
LEMMA BuiltInPieces ==
  ASSUME NEW d \in DagState, NEW l \in DagState, NEW order
  PROVE  \E upTo : BuildsBy(d, l, order, upTo)
<1> DEFINE N == Len(InOrder(d, l))
           X == Seq(TableStep(d, Table))
           Of(n, k) == k \o Piece(d, l, order, n)
           F == [p \in (1 .. N) \X X |-> Of(p[1], p[2])]
           x == <<>>
           tables == Keep(OrderDeltas(d, l), Changed(d, l))
           classes == Promoted(d, l, order)
           upTo == CHOOSE upTo : upTo = [n \in 0 .. Len(tables) |->
                     IF n = 0 THEN <<>>
                     ELSE upTo[n - 1] \o StepsFor(d, l, tables[n], classes[tables[n]])]
<1>1. N \in Nat
  BY TablesInOrder, LenProperties
<1>2. \A n \in 1 .. N, k \in X : Of(n, k) \in X
  <2> SUFFICES ASSUME NEW n \in 1 .. N, NEW k \in X PROVE k \o Piece(d, l, order, n) \in X
    OBVIOUS
  <2>1. Piece(d, l, order, n) \in X
    BY PieceOfTable
  <2> QED
    BY <2>1, ConcatProperties
<1>3. F \in [(1 .. N) \X X -> X] /\ x \in X
  <2>1. x \in X
    OBVIOUS
  <2> HIDE DEF Of, X, x
  <2> QED
    BY <1>2, <2>1
<1>4. PICK g : FollowsTo(X, F, x, N, g)
  <2> HIDE DEF F, X, N, x
  <2> QED
    BY <1>1, <1>3, RecursionTo
<1>5. g \in [0 .. N -> X] /\ g[0] = <<>>
  BY <1>4 DEF FollowsTo, x
<1>6. ASSUME NEW n \in 1 .. N PROVE n - 1 \in 0 .. N /\ g[n] = Of(n, g[n - 1])
  <2>1. n \in 0 .. N /\ n # 0 /\ n - 1 \in 0 .. N
    BY <1>1
  <2>2. <<n, g[n - 1]>> \in (1 .. N) \X X /\ g[n] = F[<<n, g[n - 1]>>]
    <3> HIDE DEF F, X, N
    <3> QED
      BY <1>4, <1>5, <2>1 DEF FollowsTo
  <2> HIDE DEF X, N, Of
  <2> QED
    BY <2>1, <2>2
<1>7. g = [n \in 0 .. N |-> IF n = 0 THEN <<>> ELSE Of(n, g[n - 1])]
  <2>1. \A n \in 0 .. N : n = 0 \/ (n \in 1 .. N /\ n # 0)
    BY <1>1
  <2>2. \A n \in 0 .. N : g[n] = IF n = 0 THEN <<>> ELSE Of(n, g[n - 1])
    BY <1>5, <1>6, <2>1
  <2> HIDE DEF N, Of
  <2> QED
    BY <1>5, <2>2
<1>8. upTo = CHOOSE h : h = [n \in 0 .. N |-> IF n = 0 THEN <<>> ELSE Of(n, h[n - 1])]
  BY DEF InOrder, Piece
<1>9. upTo = [n \in 0 .. N |-> IF n = 0 THEN <<>> ELSE Of(n, upTo[n - 1])]
  <2> HIDE DEF upTo, N, Of
  <2> QED
    BY <1>7, <1>8
<1>10. BuildPlanInOrder(d, l, order) =
         UnderLock(When("pre" \in Hooks, <<Do("RunHook")>>)
                   \o upTo[N]
                   \o When("post" \in Hooks, <<Do("RunHook")>>))
  BY DEF BuildPlanInOrder, InOrder
<1> HIDE DEF upTo
<1>11. ASSUME NEW n \in 1 .. N PROVE n - 1 \in 0 .. N /\ upTo[n] = Of(n, upTo[n - 1])
  <2>1. n \in 0 .. N /\ n # 0 /\ n - 1 \in 0 .. N
    BY <1>1
  <2> HIDE DEF N, Of
  <2> QED
    BY <1>9, <2>1
<1>12. upTo[0] = <<>>
  <2> HIDE DEF N, Of
  <2> QED
    BY <1>1, <1>9
<1> DEFINE Q == {n \in 0 .. N : upTo[n] \in X}
<1>13. 0 \in Q
  <2>1. <<>> \in X /\ 0 \in 0 .. N
    BY <1>1
  <2> HIDE DEF X
  <2> QED
    BY <1>12, <2>1
<1>14. \A n \in 1 .. N : n - 1 \in Q => n \in Q
  <2> SUFFICES ASSUME NEW n \in 1 .. N, n - 1 \in Q PROVE n \in Q
    OBVIOUS
  <2>1. n \in 0 .. N /\ upTo[n - 1] \in X
    BY <1>1
  <2> HIDE DEF X, Of
  <2> QED
    BY <1>2, <1>11, <2>1
<1>15. 0 .. N \subseteq Q
  <2> HIDE DEF Q, N
  <2> QED
    BY <1>1, <1>13, <1>14, InductionTo
<1>16. upTo \in [0 .. N -> X]
  <2>1. upTo = [n \in 0 .. N |-> upTo[n]]
    <3> HIDE DEF N, Of
    <3> QED
      BY <1>9
  <2> QED
    BY <1>15, <2>1
<1>17. BuildsBy(d, l, order, upTo)
  BY <1>10, <1>11, <1>12, <1>16 DEF BuildsBy
<1> QED
  BY <1>17

(* A concatenation whose laws are given to the provers as they are needed. *)
Join(a, b) == a \o b

(* Joining sequences yields a sequence.                                    *)
LEMMA JoinInSeq ==
  ASSUME NEW S, NEW a \in Seq(S), NEW b \in Seq(S)
  PROVE  Join(a, b) \in Seq(S)
BY ConcatProperties DEF Join

(* Joining is associative.                                                 *)
LEMMA JoinAssociates ==
  ASSUME NEW S, NEW a \in Seq(S), NEW b \in Seq(S), NEW c \in Seq(S)
  PROVE  Join(Join(a, b), c) = Join(a, Join(b, c))
BY ConcatAssociative DEF Join

(* The tables from one place of the order to another.                      *)
Between(d, l, k, n) == {InOrder(d, l)[i] : i \in k .. n}

(* The tables from one place to another are changed tables.                *)
LEMMA LengthOfOrder ==
  ASSUME NEW d, NEW l
  PROVE  /\ Len(InOrder(d, l)) \in Nat
         /\ ToSet(InOrder(d, l)) = Between(d, l, 1, Len(InOrder(d, l)))
         /\ \A k, n \in Nat : k >= 1 /\ n <= Len(InOrder(d, l)) =>
              Between(d, l, k, n) \in SUBSET Changed(d, l) /\ Between(d, l, k, n) \in SUBSET Table
<1>1. /\ InOrder(d, l) \in Seq(Changed(d, l)) /\ Changed(d, l) \in SUBSET Table
  BY TablesInOrder, ChangedExist
<1> DEFINE ts == InOrder(d, l)
<1>2. ts \in Seq(Changed(d, l)) /\ ts \in Seq(Table)
  BY <1>1, SeqMonotonic
<1> HIDE DEF ts
<1>3. Len(ts) \in Nat /\ \A i \in 1 .. Len(ts) : ts[i] \in Changed(d, l) /\ ts[i] \in Table
  BY <1>2
<1>4. ToSet(ts) = {ts[i] : i \in 1 .. Len(ts)}
  <2>1. \A x \in ToSet(ts) : \E i \in 1 .. Len(ts) : ts[i] = x
    BY <1>2, Members
  <2>2. \A i \in 1 .. Len(ts) : ts[i] \in ToSet(ts)
    BY <1>2, Members
  <2> QED
    BY <2>1, <2>2
<1>5. ASSUME NEW k \in Nat, NEW n \in Nat, k >= 1, n <= Len(ts)
      PROVE  \A i \in k .. n : i \in 1 .. Len(ts)
  BY <1>3, <1>5
<1> QED
  BY <1>3, <1>4, <1>5 DEF Between, ts

(* The first n pieces are about the first n tables.                        *)
LEMMA UpToTables ==
  ASSUME NEW d \in DagState, NEW l \in DagState, NEW order, NEW upTo, BuildsBy(d, l, order, upTo)
  PROVE  \A n \in 0 .. Len(InOrder(d, l)) : upTo[n] \in Seq(TableStep(d, Between(d, l, 1, n)))
<1> DEFINE N == Len(InOrder(d, l))
           Q == {n \in 0 .. N : upTo[n] \in Seq(TableStep(d, Between(d, l, 1, n)))}
<1>1. N \in Nat
  BY LengthOfOrder
<1>2. 0 \in Q
  <2>1. upTo[0] = <<>>
    BY DEF BuildsBy
  <2> DEFINE S == TableStep(d, Between(d, l, 1, 0))
  <2>2. <<>> \in Seq(S)
    OBVIOUS
  <2>3. upTo[0] \in Seq(S) /\ 0 \in 0 .. N
    BY <1>1, <2>1, <2>2
  <2> QED
    BY <2>3
<1>3. \A n \in 1 .. N : n - 1 \in Q => n \in Q
  <2> SUFFICES ASSUME NEW n \in 1 .. N, n - 1 \in Q
               PROVE  n \in 0 .. N /\ upTo[n] \in Seq(TableStep(d, Between(d, l, 1, n)))
    OBVIOUS
  <2> DEFINE t == InOrder(d, l)[n]
             p == Piece(d, l, order, n)
             S == TableStep(d, Between(d, l, 1, n))
             u == upTo[n - 1]
  <2>1. n \in 0 .. N
    BY <1>1
  <2>2. upTo[n] = u \o p
    BY DEF BuildsBy
  <2>3. {t} \subseteq Between(d, l, 1, n) /\ Between(d, l, 1, n - 1) \subseteq Between(d, l, 1, n)
    BY <1>1 DEF Between
  <2>4. p \in Seq(TableStep(d, {t})) /\ u \in Seq(TableStep(d, Between(d, l, 1, n - 1)))
    BY PieceOfTable
  <2>5. p \in Seq(S) /\ u \in Seq(S)
    <3> HIDE DEF t, p, u
    <3> QED
      BY <2>3, <2>4, StepsWiden
  <2> HIDE DEF p, u, S
  <2>6. u \o p \in Seq(S)
    BY <2>5, ConcatProperties
  <2> QED
    BY <2>1, <2>2, <2>6 DEF S
<1>4. 0 .. N \subseteq Q
  <2> HIDE DEF N, Q
  <2> QED
    BY <1>1, <1>2, <1>3, InductionTo
<1> QED
  BY <1>4

(* What every prefix of the pieces makes of the tables.                    *)
OutcomeOf(d, l, order, t) == Outcome(d, l, t, Promoted(d, l, order)[t])

Reaches(d, l, order, dag, T) ==
  /\ dag \in DagState
  /\ \A t \in Table : dag[t] = IF t \in T THEN OutcomeOf(d, l, order, t) ELSE l[t]

(* The first n pieces bring the first n tables to their outcomes and leave *)
(* the others as they were.                                                *)
LEMMA UpToReaches ==
  ASSUME NEW d \in DagState, NEW l \in DagState, NEW order, NEW upTo, BuildsBy(d, l, order, upTo)
  PROVE  \A n \in 0 .. Len(InOrder(d, l)) :
           Reaches(d, l, order, After(upTo[n], l), Between(d, l, 1, n))
<1> DEFINE N == Len(InOrder(d, l))
           R(n) == Reaches(d, l, order, After(upTo[n], l), Between(d, l, 1, n))
           Q == {n \in 0 .. N : R(n)}
<1>1. N \in Nat
  BY LengthOfOrder
<1>2. \A n \in 0 .. N : upTo[n] \in Seq(RunnableStep)
  <2>1. \A n \in 0 .. N : upTo[n] \in Seq(TableStep(d, Table))
    BY DEF BuildsBy
  <2> QED
    BY <2>1, StepsRun
<1>3. 0 \in Q
  <2>1. upTo[0] = <<>> /\ 0 \in 0 .. N
    BY <1>1 DEF BuildsBy
  <2> DEFINE s == upTo[0]
  <2>2. s \in Seq(RunnableStep) /\ Len(s) = 0
    <3>1. Len(<<>>) = 0
      OBVIOUS
    <3> QED
      BY <1>2, <2>1, <3>1
  <2> HIDE DEF s
  <2>3. RunsBy(s, l, Ran(s, l)) /\ After(s, l) = Ran(s, l)[Len(s)]
    BY <2>2, RanIs
  <2>4. After(s, l) = l
    BY <2>2, <2>3 DEF RunsBy
  <2>5. Between(d, l, 1, 0) = {}
    BY DEF Between
  <2> QED
    BY <1>1, <2>4, <2>5 DEF Reaches, s
<1>4. ASSUME NEW n \in 1 .. N, n - 1 \in 0 .. N, R(n - 1) PROVE R(n)
  <2> DEFINE t == InOrder(d, l)[n]
             c == Promoted(d, l, order)[t]
             p == Piece(d, l, order, n)
             u == upTo[n - 1]
             mid == After(u, l)
             end == After(p, mid)
             T == Between(d, l, 1, n - 1)
  <2>1. n \in 0 .. N
    BY <1>1
  <2>2. upTo[n] = u \o p
    BY DEF BuildsBy
  <2>3. t \in Table /\ p \in Seq(TableStep(d, {t})) /\ p = StepsFor(d, l, t, c)
    BY PieceOfTable DEF Piece
  <2>4. Between(d, l, 1, n) = T \cup {t}
    BY <1>1 DEF Between
  <2>5. t \notin T
    <3>1. Distinct(InOrder(d, l))
      BY TablesInOrder
    <3>2. \A i \in 1 .. n - 1 : i \in 1 .. N /\ i # n
      BY <1>1
    <3> QED
      BY <3>1, <3>2 DEF Distinct, Between
  <2>6. mid \in DagState /\ \A v \in Table : mid[v] = IF v \in T THEN OutcomeOf(d, l, order, v) ELSE l[v]
    BY <1>4 DEF Reaches
  <2>7. u \in Seq(RunnableStep) /\ p \in Seq(RunnableStep)
    BY <1>2, <1>4, <2>3, StepsRun
  <2>8. After(upTo[n], l) = end
    <3> HIDE DEF u, p
    <3> QED
      BY <2>2, <2>7, RanOfConcat
  <2>9. end[t] = OutcomeOf(d, l, order, t)
    <3>1. mid[t] = l[t]
      BY <2>3, <2>5, <2>6
    <3> HIDE DEF mid, p, t
    <3>2. After(StepsFor(d, l, t, c), mid)[t] = Outcome(d, l, t, c)
      BY <2>3, <2>6, <3>1, AfterPiece
    <3> QED
      BY <2>3, <3>2 DEF OutcomeOf
  <2>10. end \in DagState /\ \A v \in Table \ {t} : end[v] = mid[v]
    <3> HIDE DEF mid, p, t
    <3>1. {t} \in SUBSET Table
      BY <2>3
    <3>2. /\ p \in Seq(RunnableStep) /\ end = Ran(p, mid)[Len(p)] /\ end \in DagState
          /\ \A m \in 0 .. Len(p) : \A v \in Table \ {t} : Ran(p, mid)[m][v] = mid[v]
      BY <2>3, <2>6, <3>1, TableStepsRan
    <3>3. Len(p) \in 0 .. Len(p)
      BY <3>2, LenProperties
    <3> QED
      BY <3>2, <3>3
  <2> HIDE DEF end, mid, T, t
  <2>11. Reaches(d, l, order, end, T \cup {t})
    BY <2>5, <2>6, <2>9, <2>10 DEF Reaches
  <2> QED
    BY <2>4, <2>8, <2>11
<1>5. \A n \in 1 .. N : n - 1 \in Q => n \in Q
  <2> SUFFICES ASSUME NEW n \in 1 .. N, n - 1 \in Q PROVE n \in Q
    OBVIOUS
  <2>1. n \in 0 .. N /\ n - 1 \in 0 .. N /\ R(n - 1)
    BY <1>1
  <2> HIDE DEF R, N
  <2> QED
    BY <1>4, <2>1
<1>6. 0 .. N \subseteq Q
  <2> HIDE DEF N, Q
  <2> QED
    BY <1>1, <1>3, <1>5, InductionTo
<1> QED
  BY <1>6

(* Where one piece lies among the others.                                  *)
LEMMA UpToSplits ==
  ASSUME NEW d \in DagState, NEW l \in DagState, NEW order, NEW upTo, BuildsBy(d, l, order, upTo),
         NEW k \in 1 .. Len(InOrder(d, l))
  PROVE  \E rest \in Seq(TableStep(d, Between(d, l, k + 1, Len(InOrder(d, l))))) :
           upTo[Len(InOrder(d, l))] = Join(upTo[k - 1], Join(Piece(d, l, order, k), rest))
<1> DEFINE N == Len(InOrder(d, l))
           S == TableStep(d, Table)
           p == Piece(d, l, order, k)
           u == upTo[k - 1]
           Splits(m, rest) == /\ rest \in Seq(TableStep(d, Between(d, l, k + 1, k + m)))
                              /\ upTo[k + m] = Join(u, Join(p, rest))
           Q == {m \in 0 .. N - k : \E rest : Splits(m, rest)}
<1>1. N \in Nat /\ k \in Nat /\ N - k \in Nat /\ k + 0 = k /\ k - 1 \in 0 .. N
  BY LengthOfOrder
<1>2. p \in Seq(S) /\ u \in Seq(S)
  BY <1>1, PieceOfTable DEF BuildsBy
<1>3. upTo[k] = Join(u, p)
  BY DEF BuildsBy, Join
<1>4. 0 \in Q
  <2> DEFINE none == <<>>
             X == TableStep(d, Between(d, l, k + 1, k + 0))
  <2>1. none \in Seq(X) /\ Join(p, none) = p
    <3>1. none \in Seq(X)
      OBVIOUS
    <3> HIDE DEF p
    <3> QED
      BY <1>2, <3>1, ConcatEmptySeq DEF Join
  <2> HIDE DEF none, p, u
  <2>2. Splits(0, none)
    BY <1>1, <1>3, <2>1
  <2> HIDE DEF Splits
  <2> QED
    BY <1>1, <2>2
<1>5. \A m \in 1 .. N - k : m - 1 \in Q => m \in Q
  <2> SUFFICES ASSUME NEW m \in 1 .. N - k, m - 1 \in Q PROVE m \in 0 .. N - k /\ \E rest : Splits(m, rest)
    OBVIOUS
  <2>1. m \in 0 .. N - k /\ k + m \in 1 .. N /\ k + (m - 1) = (k + m) - 1 /\ m \in Nat
    BY <1>1
  <2>2. PICK rest : Splits(m - 1, rest)
    <3> HIDE DEF Splits
    <3> QED
      OBVIOUS
  <2> DEFINE t == InOrder(d, l)[k + m]
             q == Piece(d, l, order, k + m)
             T == Between(d, l, k + 1, k + m)
             T0 == Between(d, l, k + 1, k + (m - 1))
             new == Join(rest, q)
  <2>3. rest \in Seq(TableStep(d, T0)) /\ upTo[k + (m - 1)] = Join(u, Join(p, rest))
    BY <2>2
  <2>4. q \in Seq(TableStep(d, {t})) /\ t \in Table
    BY <2>1, PieceOfTable
  <2>5. T0 \subseteq T /\ {t} \subseteq T /\ T0 \subseteq Table /\ T \subseteq Table
    <3>1. T0 \subseteq T /\ {t} \subseteq T
      BY <1>1, <2>1 DEF Between
    <3>2. k + 1 \in Nat /\ k + m \in Nat /\ k + 1 >= 1 /\ k + m <= N
      BY <1>1, <2>1
    <3>3. T \in SUBSET Table
      BY <3>2, LengthOfOrder
    <3> QED
      BY <3>1, <3>3
  <2>6. rest \in Seq(TableStep(d, T)) /\ q \in Seq(TableStep(d, T)) /\ rest \in Seq(S) /\ q \in Seq(S)
    <3> HIDE DEF t, q, T, T0
    <3>1. {t} \subseteq Table
      BY <2>4
    <3> QED
      BY <2>3, <2>4, <2>5, <3>1, StepsWiden
  <2>7. new \in Seq(TableStep(d, T))
    <3> HIDE DEF q, T
    <3> QED
      BY <2>6, JoinInSeq
  <2>8. upTo[k + m] = Join(upTo[(k + m) - 1], q)
    BY <2>1 DEF BuildsBy, Join
  <2>9. upTo[k + m] = Join(Join(u, Join(p, rest)), q)
    <3> HIDE DEF q, u, p
    <3> QED
      BY <2>1, <2>3, <2>8
  <2>10. Join(Join(u, Join(p, rest)), q) = Join(u, Join(p, new))
    <3> HIDE DEF q, u, p, S, T, T0, t, N, Splits, Q
    <3>1. u \in Seq(S) /\ p \in Seq(S) /\ rest \in Seq(S) /\ q \in Seq(S)
      BY <1>2, <2>6
    <3>2. Join(p, rest) \in Seq(S)
      BY <3>1, JoinInSeq
    <3>3. Join(Join(u, Join(p, rest)), q) = Join(u, Join(Join(p, rest), q))
      BY <3>1, <3>2, JoinAssociates
    <3>4. Join(Join(p, rest), q) = Join(p, Join(rest, q))
      BY <3>1, JoinAssociates
    <3> QED
      BY <3>3, <3>4
  <2>11. Splits(m, new)
    <3> HIDE DEF new, u, p, q
    <3> QED
      BY <2>7, <2>9, <2>10
  <2> HIDE DEF Splits
  <2> QED
    BY <2>1, <2>11
<1>6. 0 .. N - k \subseteq Q
  <2> HIDE DEF Q, N
  <2> QED
    BY <1>1, <1>4, <1>5, InductionTo
<1>7. N - k \in 0 .. N - k /\ k + (N - k) = N
  BY <1>1
<1>8. PICK rest : Splits(N - k, rest)
  <2> HIDE DEF Splits, N
  <2> QED
    BY <1>6, <1>7
<1> HIDE DEF N
<1>9. rest \in Seq(TableStep(d, Between(d, l, k + 1, N))) /\ upTo[N] = Join(u, Join(p, rest))
  <2> HIDE DEF u, p
  <2> QED
    BY <1>7, <1>8
<1> QED
  BY <1>9 DEF N

-----------------------------------------------------------------------------
(* The whole plan: the bookkeeping around the pieces.                      *)
BookStep == {Do(op) : op \in {"LockDag", "RunHook", "RecordSnapshot", "UnlockDag"}}

PlanStep(d, T) == TableStep(d, T) \cup BookStep

(* Bookkeeping is about no table.                                          *)
LEMMA BookSteps ==
  /\ BookStep \subseteq RunnableStep
  /\ \A step \in BookStep : step.table = None /\ step.op \notin TableChanges \cup SwitchOps
BY SpecIsArgs DEF BookStep, RunnableStep, Do, Step, Op, TableChanges, SwitchOps

(* The steps of a plan can be run and touch the tables they are about.     *)
LEMMA PlanStepsRun ==
  ASSUME NEW d \in DagState, NEW T \in SUBSET Table, NEW s \in Seq(PlanStep(d, T))
  PROVE  s \in Seq(RunnableStep) /\ TouchesOnly(s, T)
<1>1. PlanStep(d, T) \subseteq RunnableStep
  BY StepsRun, BookSteps DEF PlanStep
<1>2. s \in Seq(RunnableStep)
  BY <1>1, SeqMonotonic
<1>3. \A i \in 1 .. Len(s) : s[i] \in PlanStep(d, T)
  OBVIOUS
<1>4. \A step \in PlanStep(d, T) : step.op \in TableChanges \cup SwitchOps => step.table \in T
  BY BookSteps DEF PlanStep, TableStep
<1>5. TouchesOnly(s, T)
  BY <1>3, <1>4 DEF TouchesOnly
<1> QED
  BY <1>2, <1>5

(* The steps of a plan about some tables are steps about more tables.      *)
LEMMA PlanStepsWiden ==
  ASSUME NEW d, NEW T, NEW U, T \subseteq U
  PROVE  /\ PlanStep(d, T) \subseteq PlanStep(d, U)
         /\ \A s \in Seq(TableStep(d, T)) : s \in Seq(PlanStep(d, U))
         /\ \A s \in Seq(PlanStep(d, T)) : s \in Seq(PlanStep(d, U))
<1>1. PlanStep(d, T) \subseteq PlanStep(d, U) /\ TableStep(d, T) \subseteq PlanStep(d, U)
  BY StepsWiden DEF PlanStep
<1> QED
  BY <1>1, SeqMonotonic

HooksAt(hook) == When(hook \in Hooks, <<Do("RunHook")>>)

(* Bookkeeping changes no table.                                           *)
LEMMA BookRuns ==
  ASSUME NEW s \in Seq(BookStep), NEW dag \in DagState
  PROVE  s \in Seq(RunnableStep) /\ After(s, dag) = dag
<1>1. s \in Seq(RunnableStep)
  BY BookSteps, SeqMonotonic
<1>2. \A i \in 1 .. Len(s) : s[i] \in BookStep
  OBVIOUS
<1>3. TouchesOnly(s, {})
  BY <1>2, BookSteps DEF TouchesOnly
<1>4. Len(s) \in 0 .. Len(s)
  BY LenProperties
<1>5. After(s, dag) \in DagState /\ \A u \in Table \ {} : After(s, dag)[u] = dag[u]
  BY <1>1, <1>3, <1>4, RanAside
<1> QED
  BY <1>1, <1>5 DEF DagState

Ends == <<Do("RecordSnapshot"), Do("UnlockDag")>>

(* What is around the pieces is bookkeeping.                               *)
LEMMA Books ==
  /\ <<Do("LockDag")>> \in Seq(BookStep) /\ Ends \in Seq(BookStep)
  /\ \A hook : HooksAt(hook) \in Seq({Do("RunHook")}) /\ HooksAt(hook) \in Seq(BookStep)
<1>1. Do("LockDag") \in BookStep /\ Do("RunHook") \in BookStep
      /\ Do("RecordSnapshot") \in BookStep /\ Do("UnlockDag") \in BookStep
  BY DEF BookStep
<1> DEFINE x == Do("RunHook")
<1>2. <<Do("LockDag")>> \in Seq(BookStep) /\ Ends \in Seq(BookStep)
  BY <1>1 DEF Ends
<1>3. ASSUME NEW hook PROVE HooksAt(hook) \in Seq({Do("RunHook")}) /\ HooksAt(hook) \in Seq(BookStep)
  <2>1. x \in BookStep
    BY <1>1
  <2>2. HooksAt(hook) = IF hook \in Hooks THEN <<x>> ELSE <<>>
    BY DEF HooksAt, When
  <2> HIDE DEF x
  <2>3. <<x>> \in Seq({x}) /\ <<>> \in Seq({x}) /\ <<x>> \in Seq(BookStep) /\ <<>> \in Seq(BookStep)
    BY <2>1
  <2>4. HooksAt(hook) \in Seq({x}) /\ HooksAt(hook) \in Seq(BookStep)
    BY <2>2, <2>3
  <2> QED
    BY <2>4 DEF x
<1> QED
  BY <1>2, <1>3

(* A plan is the pieces between the hooks, the lock and the snapshot.      *)
LEMMA PlanIs ==
  ASSUME NEW d, NEW l, NEW order, NEW upTo, BuildsBy(d, l, order, upTo)
  PROVE  BuildPlanInOrder(d, l, order) =
           Join(Join(<<Do("LockDag")>>,
                     Join(Join(HooksAt("pre"), upTo[Len(InOrder(d, l))]), HooksAt("post"))),
                Ends)
BY DEF BuildsBy, UnderLock, Join, HooksAt, Ends

(* A piece, with what comes before and after it.                           *)
Around(d, l, order, k, a, b) ==
  /\ a \in Seq(PlanStep(d, Between(d, l, 1, k - 1)))
  /\ b \in Seq(PlanStep(d, Between(d, l, k + 1, Len(InOrder(d, l)))))
  /\ BuildPlanInOrder(d, l, order) = Join(a, Join(Piece(d, l, order, k), b))
  /\ Reaches(d, l, order, After(a, l), Between(d, l, 1, k - 1))

(* Each piece has the earlier pieces before it and the later ones after.   *)
LEMMA PlanSplits ==
  ASSUME NEW d \in DagState, NEW l \in DagState, NEW order, NEW k \in 1 .. Len(InOrder(d, l))
  PROVE  \E a, b : Around(d, l, order, k, a, b)
<1>1. PICK upTo : BuildsBy(d, l, order, upTo)
  BY BuiltInPieces
<1> DEFINE N == Len(InOrder(d, l))
           S == PlanStep(d, Table)
           A == Between(d, l, 1, k - 1)
           B == Between(d, l, k + 1, N)
           lock == <<Do("LockDag")>>
           pre == HooksAt("pre")
           post == HooksAt("post")
           u == upTo[k - 1]
           p == Piece(d, l, order, k)
           Rest(r) == r \in Seq(TableStep(d, B)) /\ upTo[N] = Join(u, Join(p, r))
<1>2. PICK r : Rest(r)
  BY <1>1, UpToSplits
<1> DEFINE a == Join(lock, Join(pre, u))
           b == Join(r, Join(post, Ends))
<1>3. N \in Nat /\ k \in Nat /\ k - 1 \in 0 .. N /\ k - 1 \in Nat /\ k + 1 \in Nat
      /\ k + 1 >= 1 /\ k - 1 <= N
  BY LengthOfOrder
<1>4. A \in SUBSET Table /\ B \in SUBSET Table
  <2>1. 1 \in Nat /\ 1 >= 1 /\ N <= N
    BY <1>3
  <2> HIDE DEF N
  <2> QED
    BY <1>3, <2>1, LengthOfOrder DEF N
<1>5. /\ lock \in Seq(BookStep) /\ pre \in Seq(BookStep) /\ post \in Seq(BookStep)
      /\ Ends \in Seq(BookStep)
  BY Books
<1>6. \A s \in Seq(BookStep) : \A T : s \in Seq(PlanStep(d, T))
  BY SeqMonotonic DEF PlanStep
<1>7. u \in Seq(TableStep(d, A)) /\ r \in Seq(TableStep(d, B)) /\ p \in Seq(TableStep(d, Table))
  BY <1>1, <1>2, <1>3, UpToTables, PieceOfTable
<1>8. upTo[N] = Join(u, Join(p, r))
  BY <1>2
<1>9. u \in Seq(PlanStep(d, A)) /\ r \in Seq(PlanStep(d, B)) /\ u \in Seq(S) /\ r \in Seq(S)
      /\ p \in Seq(S)
  <2> HIDE DEF A, B, u, p
  <2> QED
    BY <1>4, <1>7, PlanStepsWiden
<1>10. After(u, l) \in DagState /\ Reaches(d, l, order, After(u, l), A)
  BY <1>1, <1>3, UpToReaches DEF Reaches
<1> HIDE DEF N, A, B, lock, pre, post, u, p
<1>11. a \in Seq(PlanStep(d, A))
  <2>1. lock \in Seq(PlanStep(d, A)) /\ pre \in Seq(PlanStep(d, A))
    BY <1>5, <1>6
  <2>2. Join(pre, u) \in Seq(PlanStep(d, A))
    BY <1>9, <2>1, JoinInSeq
  <2> QED
    BY <2>1, <2>2, JoinInSeq
<1>12. b \in Seq(PlanStep(d, B))
  <2>1. post \in Seq(PlanStep(d, B)) /\ Ends \in Seq(PlanStep(d, B))
    BY <1>5, <1>6
  <2>2. Join(post, Ends) \in Seq(PlanStep(d, B))
    BY <2>1, JoinInSeq
  <2> QED
    BY <1>9, <2>2, JoinInSeq
<1>13. BuildPlanInOrder(d, l, order) = Join(a, Join(p, b))
  <2>1. /\ lock \in Seq(S) /\ pre \in Seq(S) /\ post \in Seq(S) /\ Ends \in Seq(S)
        /\ u \in Seq(S) /\ p \in Seq(S) /\ r \in Seq(S)
    BY <1>5, <1>6, <1>9
  <2> HIDE DEF S
  <2>2. BuildPlanInOrder(d, l, order) =
          Join(Join(lock, Join(Join(pre, Join(u, Join(p, r))), post)), Ends)
    BY <1>1, <1>8, PlanIs DEF N, lock, pre, post
  <2> DEFINE pr == Join(p, r)
             upr == Join(u, pr)
             pu == Join(pre, u)
             q == Join(post, Ends)
  <2>3. /\ pr \in Seq(S) /\ pu \in Seq(S) /\ q \in Seq(S)
    BY <2>1, JoinInSeq
  <2>4. Join(pre, upr) = Join(pu, pr)
    BY <2>1, <2>3, JoinAssociates
  <2> HIDE DEF pr
  <2>5. Join(pu, pr) \in Seq(S)
    BY <2>3, JoinInSeq
  <2> HIDE DEF pu
  <2> DEFINE x == Join(pu, pr)
             xp == Join(x, post)
  <2>6. xp \in Seq(S)
    BY <2>1, <2>5, JoinInSeq
  <2>7. Join(Join(lock, xp), Ends) = Join(lock, Join(xp, Ends))
    BY <2>1, <2>6, JoinAssociates
  <2>8. Join(xp, Ends) = Join(x, q)
    BY <2>1, <2>5, JoinAssociates
  <2>9. x = Join(pu, pr) /\ Join(x, q) = Join(pu, Join(pr, q))
    BY <2>3, JoinAssociates
  <2>10. Join(pr, q) = Join(p, b)
    <3>1. Join(Join(p, r), q) = Join(p, Join(r, q))
      <4> HIDE DEF q
      <4> QED
        BY <2>1, <2>3, JoinAssociates
    <3> QED
      BY <3>1 DEF pr
  <2> HIDE DEF x, q
  <2>11. Join(p, b) \in Seq(S)
    BY <2>3, <2>10, JoinInSeq
  <2>12. Join(Join(lock, pu), Join(p, b)) = Join(lock, Join(pu, Join(p, b)))
    <3> HIDE DEF b
    <3> QED
      BY <2>1, <2>3, <2>11, JoinAssociates
  <2>13. BuildPlanInOrder(d, l, order) = Join(Join(lock, xp), Ends)
    BY <2>2, <2>4 DEF x, pr
  <2>14. a = Join(lock, pu)
    BY DEF pu
  <2> HIDE DEF a, b, xp
  <2> QED
    BY <2>7, <2>8, <2>9, <2>10, <2>12, <2>13, <2>14
<1>14. After(a, l) = After(u, l)
  <2>1. u \in Seq(RunnableStep)
    BY <1>4, <1>9, PlanStepsRun
  <2>2. lock \in Seq(RunnableStep) /\ pre \in Seq(RunnableStep)
        /\ After(lock, l) = l /\ After(pre, l) = l
    BY <1>5, BookRuns
  <2>3. Join(pre, u) \in Seq(RunnableStep)
    BY <2>1, <2>2, JoinInSeq
  <2>4. After(Join(pre, u), l) = After(u, l)
    <3>1. After(Join(pre, u), l) = After(u, After(pre, l))
      BY <2>1, <2>2, RanOfConcat DEF Join
    <3> QED
      BY <2>2, <3>1
  <2> DEFINE pu == Join(pre, u)
  <2> HIDE DEF pu
  <2>5. After(Join(lock, pu), l) = After(pu, After(lock, l))
    BY <2>2, <2>3, RanOfConcat DEF Join, pu
  <2>6. After(Join(lock, pu), l) = After(u, l)
    BY <2>2, <2>4, <2>5 DEF pu
  <2> QED
    BY <2>6 DEF pu
<1>15. Around(d, l, order, k, a, b)
  <2> HIDE DEF a, b
  <2> QED
    BY <1>10, <1>11, <1>12, <1>13, <1>14 DEF Around, N, A, B, p
<1> QED
  BY <1>15

(* The places of the piece in the plan.                                    *)
LEMMA PieceInPlan ==
  ASSUME NEW d \in DagState, NEW l \in DagState, NEW order, NEW k \in 1 .. Len(InOrder(d, l)),
         NEW a, NEW b, Around(d, l, order, k, a, b)
  PROVE  LET plan == BuildPlanInOrder(d, l, order)
             p == Piece(d, l, order, k)
         IN /\ Len(a) \in Nat /\ Len(p) \in Nat /\ Len(plan) \in Nat
            /\ \A m \in 1 .. Len(p) :
                 Len(a) + m \in 1 .. Len(plan) /\ plan[Len(a) + m] = p[m]
            /\ \A i \in 1 .. Len(plan) : plan[i].table = InOrder(d, l)[k] =>
                 i - Len(a) \in 1 .. Len(p) /\ plan[i] = p[i - Len(a)]
<1> DEFINE S == PlanStep(d, Table)
           N == Len(InOrder(d, l))
           plan == BuildPlanInOrder(d, l, order)
           p == Piece(d, l, order, k)
           t == InOrder(d, l)[k]
           A == Between(d, l, 1, k - 1)
           B == Between(d, l, k + 1, N)
           pb == p \o b
<1>1. N \in Nat /\ k \in Nat /\ k - 1 \in Nat /\ k + 1 \in Nat /\ k + 1 >= 1 /\ k - 1 <= N
  BY LengthOfOrder
<1>2. A \in SUBSET Table /\ B \in SUBSET Table
  <2>1. 1 \in Nat /\ 1 >= 1 /\ N <= N
    BY <1>1
  <2> HIDE DEF N
  <2> QED
    BY <1>1, <2>1, LengthOfOrder DEF N
<1>3. t \in Table /\ t \notin A /\ t \notin B /\ None # t
  <2>1. t \in Table
    BY PieceOfTable
  <2>2. \A i \in 1 .. k - 1 : i \in 1 .. N /\ i # k
    BY <1>1
  <2>3. \A i \in k + 1 .. N : i \in 1 .. N /\ i # k
    BY <1>1
  <2>4. Distinct(InOrder(d, l))
    BY TablesInOrder
  <2> QED
    BY <2>1, <2>2, <2>3, <2>4, NullAssumption DEF Distinct, Between
<1>4. a \in Seq(PlanStep(d, A)) /\ b \in Seq(PlanStep(d, B)) /\ plan = a \o pb
  BY DEF Around, Join
<1>5. p \in Seq(TableStep(d, Table))
  BY PieceOfTable
<1>6. a \in Seq(S) /\ b \in Seq(S) /\ p \in Seq(S)
  <2> HIDE DEF A, B, p
  <2> QED
    BY <1>2, <1>4, <1>5, PlanStepsWiden
<1>7. \A i \in 1 .. Len(a) : a[i].table # t
  <2>1. \A i \in 1 .. Len(a) : a[i] \in PlanStep(d, A)
    BY <1>4
  <2>2. \A step \in PlanStep(d, A) : step.table # t
    BY <1>3, BookSteps DEF PlanStep, TableStep
  <2> QED
    BY <2>1, <2>2
<1>8. \A i \in 1 .. Len(b) : b[i].table # t
  <2>1. \A i \in 1 .. Len(b) : b[i] \in PlanStep(d, B)
    BY <1>4
  <2>2. \A step \in PlanStep(d, B) : step.table # t
    BY <1>3, BookSteps DEF PlanStep, TableStep
  <2> QED
    BY <2>1, <2>2
<1> HIDE DEF S, p, t, plan, pb
<1>9. /\ pb \in Seq(S) /\ Len(pb) = Len(p) + Len(b)
      /\ \A m \in 1 .. Len(p) : pb[m] = p[m] /\ m \in 1 .. Len(pb)
      /\ \A m \in 1 .. Len(b) : pb[Len(p) + m] = b[m]
      /\ \A m \in 1 .. Len(pb) : m \in 1 .. Len(p) \/ m - Len(p) \in 1 .. Len(b)
  BY <1>6, MembersOfConcat DEF pb
<1>10. /\ Len(plan) = Len(a) + Len(pb)
       /\ \A i \in 1 .. Len(a) : plan[i] = a[i]
       /\ \A m \in 1 .. Len(pb) : plan[Len(a) + m] = pb[m] /\ Len(a) + m \in 1 .. Len(plan)
       /\ \A i \in 1 .. Len(plan) : i \in 1 .. Len(a) \/ i - Len(a) \in 1 .. Len(pb)
  <2>1. a \in Seq(S) /\ pb \in Seq(S) /\ plan = a \o pb
    BY <1>4, <1>6, <1>9
  <2> HIDE DEF A, B, N
  <2>2. /\ Len(a \o pb) = Len(a) + Len(pb)
        /\ \A i \in 1 .. Len(a) : (a \o pb)[i] = a[i]
        /\ \A m \in 1 .. Len(pb) :
             (a \o pb)[Len(a) + m] = pb[m] /\ Len(a) + m \in 1 .. Len(a \o pb)
        /\ \A i \in 1 .. Len(a \o pb) : i \in 1 .. Len(a) \/ i - Len(a) \in 1 .. Len(pb)
    <3>1. a \in Seq(S) /\ pb \in Seq(S)
      BY <2>1
    <3> QED
      BY <3>1, MembersOfConcat
  <2> QED
    BY <2>1, <2>2
<1>11. Len(a) \in Nat /\ Len(b) \in Nat /\ Len(p) \in Nat /\ Len(pb) \in Nat /\ Len(plan) \in Nat
  <2>1. Len(a) \in Nat /\ Len(b) \in Nat /\ Len(p) \in Nat /\ Len(pb) \in Nat
    BY <1>6, <1>9, LenProperties
  <2> QED
    BY <1>10, <2>1
<1>12. \A m \in 1 .. Len(p) : Len(a) + m \in 1 .. Len(plan) /\ plan[Len(a) + m] = p[m]
  BY <1>9, <1>10
<1>13. ASSUME NEW i \in 1 .. Len(plan), plan[i].table = t
       PROVE  i - Len(a) \in 1 .. Len(p) /\ plan[i] = p[i - Len(a)]
  <2>1. i - Len(a) \in 1 .. Len(pb)
    BY <1>7, <1>10, <1>13
  <2> DEFINE m == i - Len(a)
  <2>2. Len(a) + m = i /\ m \in Int
    BY <1>11
  <2> HIDE DEF m
  <2>3. plan[i] = pb[m] /\ m \in 1 .. Len(pb)
    <3>1. m \in 1 .. Len(pb)
      BY <2>1 DEF m
    <3> QED
      BY <1>10, <2>2, <3>1
  <2>4. m \in 1 .. Len(p)
    <3>1. m \in 1 .. Len(p) \/ m - Len(p) \in 1 .. Len(b)
      BY <1>9, <2>3
    <3>2. ASSUME m - Len(p) \in 1 .. Len(b) PROVE FALSE
      <4>1. Len(p) + (m - Len(p)) = m
        BY <1>11, <2>2
      <4>2. pb[Len(p) + (m - Len(p))] = b[m - Len(p)]
        BY <1>9, <3>2
      <4> QED
        BY <1>8, <1>13, <2>3, <3>2, <4>1, <4>2
    <3> QED
      BY <3>1, <3>2
  <2> QED
    BY <1>9, <2>3, <2>4 DEF m
<1> QED
  BY <1>11, <1>12, <1>13 DEF plan, p, t

-----------------------------------------------------------------------------
(* What a plan makes of the tables.                                        *)
LEMMA PlanReaches ==
  ASSUME NEW d \in DagState, NEW l \in DagState, NEW order
  PROVE  LET plan == BuildPlanInOrder(d, l, order)
             T == Between(d, l, 1, Len(InOrder(d, l)))
         IN /\ T \in SUBSET Table /\ plan \in Seq(PlanStep(d, T))
            /\ plan \in Seq(RunnableStep)
            /\ Reaches(d, l, order, After(plan, l), T)
<1> DEFINE N == Len(InOrder(d, l))
           T == Between(d, l, 1, N)
           plan == BuildPlanInOrder(d, l, order)
           S == PlanStep(d, T)
           lock == <<Do("LockDag")>>
           pre == HooksAt("pre")
           post == HooksAt("post")
<1>1. PICK upTo : BuildsBy(d, l, order, upTo)
  BY BuiltInPieces
<1> DEFINE u == upTo[N]
<1>2. N \in Nat /\ N \in 0 .. N /\ N <= N /\ 1 \in Nat /\ 1 >= 1
  BY LengthOfOrder
<1>3. T \in SUBSET Table
  <2> HIDE DEF N
  <2> QED
    BY <1>2, LengthOfOrder DEF N
<1>4. u \in Seq(TableStep(d, T))
  BY <1>1, <1>2, UpToTables
<1>5. Reaches(d, l, order, After(u, l), T)
  BY <1>1, <1>2, UpToReaches
<1>6. plan = Join(Join(lock, Join(Join(pre, u), post)), Ends)
  BY <1>1, PlanIs
<1>7. /\ lock \in Seq(BookStep) /\ pre \in Seq(BookStep) /\ post \in Seq(BookStep)
      /\ Ends \in Seq(BookStep)
  BY Books
<1>8. \A s \in Seq(BookStep) : s \in Seq(PlanStep(d, T))
  BY SeqMonotonic DEF PlanStep
<1> HIDE DEF N, T, plan, lock, pre, post, u, S
<1>9. /\ lock \in Seq(S) /\ pre \in Seq(S) /\ post \in Seq(S) /\ Ends \in Seq(S) /\ u \in Seq(S)
  BY <1>4, <1>7, <1>8, PlanStepsWiden DEF S
<1> DEFINE a == Join(pre, u)
           b == Join(a, post)
           c == Join(lock, b)
<1>10. a \in Seq(S)
  BY <1>9, JoinInSeq
<1> HIDE DEF a
<1>11. b \in Seq(S)
  BY <1>9, <1>10, JoinInSeq
<1> HIDE DEF b
<1>12. c \in Seq(S)
  BY <1>9, <1>11, JoinInSeq
<1> HIDE DEF c
<1>13. plan = Join(c, Ends)
  BY <1>6 DEF a, b, c
<1>14. plan \in Seq(S)
  BY <1>9, <1>12, <1>13, JoinInSeq
<1>15. \A s \in Seq(S) : s \in Seq(RunnableStep)
  BY <1>3, PlanStepsRun DEF S
<1>16. /\ After(lock, l) = l /\ After(pre, l) = l
       /\ \A dag \in DagState : After(post, dag) = dag /\ After(Ends, dag) = dag
  BY <1>7, BookRuns
<1>17. \A s, w \in Seq(S) : After(Join(s, w), l) = After(w, After(s, l))
                            /\ After(s, l) \in DagState
  BY <1>15, RanOfConcat DEF Join
<1>18. After(a, l) = After(u, l)
  BY <1>9, <1>16, <1>17 DEF a
<1>19. After(b, l) = After(u, l)
  BY <1>9, <1>10, <1>16, <1>17, <1>18 DEF b
<1>20. After(c, l) = After(u, l)
  BY <1>9, <1>11, <1>16, <1>17, <1>19 DEF c
<1>21. After(plan, l) = After(u, l)
  BY <1>9, <1>12, <1>13, <1>16, <1>17, <1>20
<1>22. plan \in Seq(RunnableStep)
  BY <1>14, <1>15
<1> QED
  BY <1>3, <1>5, <1>14, <1>21, <1>22 DEF S, T, N, plan

(* When the files describe no cycle, the plan misses no change.            *)
LEMMA Applied ==
  ASSUME NEW d \in DagState, NEW l \in DagState, Sortable(d), NEW order
  PROVE  LET result == After(BuildPlanInOrder(d, l, order), l) IN
         /\ result \in DagState
         /\ \A t \in Changed(d, l) : result[t] = OutcomeOf(d, l, order, t)
         /\ \A t \in Table \ Changed(d, l) : result[t] = d[t] /\ l[t] = d[t]
<1> DEFINE T == Between(d, l, 1, Len(InOrder(d, l)))
           result == After(BuildPlanInOrder(d, l, order), l)
<1>1. Reaches(d, l, order, result, T)
  BY PlanReaches
<1>2. T = Changed(d, l)
  BY TablesInOrder, LengthOfOrder
<1>3. \A t \in Table \ Changed(d, l) : l[t] = d[t]
  BY KindSays DEF Changed
<1>4. Changed(d, l) \in SUBSET Table
  BY ChangedExist
<1> HIDE DEF T, result
<1>5. \A t \in Table : result[t] = IF t \in Changed(d, l) THEN OutcomeOf(d, l, order, t) ELSE l[t]
  BY <1>1, <1>2 DEF Reaches
<1>6. result \in DagState
  BY <1>1 DEF Reaches
<1> QED
  BY <1>3, <1>4, <1>5, <1>6 DEF result

(* A table has the query of its file after its piece, whatever its class.  *)
LEMMA OutcomeIs ==
  ASSUME NEW d \in DagState, NEW l \in DagState, NEW t \in Changed(d, l), NEW c
  PROVE  /\ d[t] = Absent => Outcome(d, l, t, c) = Absent
         /\ d[t] # Absent => /\ Outcome(d, l, t, c) \in TableSpec
                             /\ Outcome(d, l, t, c) # Absent
                             /\ Outcome(d, l, t, c).query = d[t].query
<1> DEFINE kind == DeltaKind(d, l, t)
<1>1. t \in Table /\ kind # "Unchanged"
  BY DEF Changed
<1>2. /\ kind \in {"Unchanged", "Create", "Drop", "AlterQuery"} \cup MetadataKinds
      /\ kind = "Create" <=> d[t] # Absent /\ l[t] = Absent
      /\ kind = "Drop" <=> d[t] = Absent /\ l[t] # Absent
      /\ kind = "AlterQuery" <=> d[t] # Absent /\ l[t] # Absent /\ d[t].query # l[t].query
      /\ kind \in MetadataKinds <=>
           d[t] # Absent /\ l[t] # Absent /\ d[t] # l[t] /\ d[t].query = l[t].query
  BY <1>1, KindSays
<1>3. Absent \notin TableSpec
  BY NullAssumption
<1>4. CASE d[t] = Absent
  <2>1. kind = "Drop"
    BY <1>1, <1>2, <1>4
  <2> QED
    BY <1>4, <2>1 DEF Outcome
<1>5. CASE d[t] # Absent
  <2>1. d[t] \in TableSpec
    BY <1>1, <1>5 DEF DagState
  <2>2. \A spec, old \in TableSpec :
          /\ Rebuilt(spec, old) \in TableSpec /\ Rebuilt(spec, old).query = spec.query
          /\ [old EXCEPT !.query = spec.query] \in TableSpec
          /\ [old EXCEPT !.query = spec.query].query = spec.query
          /\ [spec EXCEPT !.cdc = OrElse(spec.cdc, old.cdc)] \in TableSpec
          /\ [spec EXCEPT !.cdc = OrElse(spec.cdc, old.cdc)].query = spec.query
    BY DEF Rebuilt, TableSpec, RefreshMode, OrElse
  <2>3. l[t] # Absent => l[t] \in TableSpec
    BY <1>1 DEF DagState
  <2> DEFINE o == Outcome(d, l, t, c)
  <2>4. o \in TableSpec /\ o.query = d[t].query
    <3>1. CASE kind = "Create"
      BY <2>1, <3>1 DEF Outcome
    <3>2. CASE kind = "AlterQuery"
      <4>1. o = IF c = "InPlace" THEN [l[t] EXCEPT !.query = d[t].query] ELSE Rebuilt(d[t], l[t])
        BY <3>2 DEF Outcome
      <4>2. l[t] \in TableSpec
        BY <1>2, <2>3, <3>2
      <4> HIDE DEF o
      <4> QED
        BY <2>1, <2>2, <4>1, <4>2
    <3>3. CASE kind \in MetadataKinds
      <4>1. o = IF c = "Rebuild" THEN Rebuilt(d[t], l[t])
                ELSE [d[t] EXCEPT !.cdc = OrElse(d[t].cdc, l[t].cdc)]
        BY <3>3 DEF Outcome, MetadataKinds
      <4>2. l[t] \in TableSpec
        BY <1>2, <2>3, <3>3
      <4> HIDE DEF o
      <4> QED
        BY <2>1, <2>2, <4>1, <4>2
    <3> QED
      BY <1>1, <1>2, <1>5, <3>1, <3>2, <3>3
  <2> QED
    BY <1>3, <1>5, <2>4
<1> QED
  BY <1>4, <1>5

(* So an apply brings the tables and the queries of the files.             *)
LEMMA AppliedQueries ==
  ASSUME NEW d \in DagState, NEW l \in DagState, Sortable(d), NEW order
  PROVE  LET result == After(BuildPlanInOrder(d, l, order), l) IN
         /\ Existing(result) = Existing(d)
         /\ \A t \in Existing(d) : result[t].query = d[t].query
<1> DEFINE result == After(BuildPlanInOrder(d, l, order), l)
<1>1. /\ \A t \in Changed(d, l) : result[t] = OutcomeOf(d, l, order, t)
      /\ \A t \in Table \ Changed(d, l) : result[t] = d[t]
  BY Applied
<1>2. \A t \in Changed(d, l) :
        /\ d[t] = Absent => OutcomeOf(d, l, order, t) = Absent
        /\ d[t] # Absent => /\ OutcomeOf(d, l, order, t) # Absent
                            /\ OutcomeOf(d, l, order, t).query = d[t].query
  BY OutcomeIs DEF OutcomeOf
<1> HIDE DEF result
<1>3. \A t \in Table : /\ result[t] = Absent <=> d[t] = Absent
                       /\ d[t] # Absent => result[t].query = d[t].query
  BY <1>1, <1>2
<1> QED
  BY <1>3 DEF Existing, result

(* The order that CHOOSE takes is one of the orders of the HashMap.        *)
LEMMA ChosenOrder ==
  ASSUME NEW d, NEW l
  PROVE  SetToSeq(ConvergenceNodes(d, l)) \in SetToSeqs(ConvergenceNodes(d, l))
<1> DEFINE S == ConvergenceNodes(d, l)
           D == 1 .. Cardinality(S)
<1>1. S \subseteq Table
  BY DEF ConvergenceNodes, Changed
<1> HIDE DEF S
<1>2. IsFiniteSet(S)
  BY <1>1, TableIsFinite, FS_Subset
<1>3. PICK n \in Nat : ExistsBijection(1 .. n, S)
  BY <1>2, FS_NatBijection
<1>4. ExistsBijection(D, S)
  BY <1>3, FS_CountingElements
<1>5. PICK f : f \in Bijection(D, S)
  BY <1>4 DEF ExistsBijection
<1>6. f \in [D -> S] /\ IsInjective(f)
  BY <1>5 DEF Bijection, Injection
<1>7. SetToSeq(S) \in [D -> S] /\ IsInjective(SetToSeq(S))
  BY <1>6 DEF SetToSeq
<1>8. SetToSeq(S) \in SetToSeqs(S)
  BY <1>7 DEF SetToSeqs, IsInjective
<1> QED
  BY <1>8 DEF S

(* The files and the tables are always DAGs: a plan applied to live specs  *)
(* leaves each table absent or with a complete spec.                       *)
THEOREM TypeCorrect == Spec => []TypeOK
<1>1. Init => TypeOK
  BY DEF Init, TypeOK, EmptyDag, DagState
<1>2. TypeOK /\ [Next]_replanVars => TypeOK'
  <2> SUFFICES ASSUME TypeOK, [Next]_replanVars PROVE TypeOK'
    OBVIOUS
  <2>1. desired \in DagState /\ live \in DagState
    BY DesiredAssumption DEF TypeOK
  <2>2. CASE Edit
    BY <2>2 DEF Edit, TypeOK
  <2>3. CASE Apply
    <3>1. PICK order \in Orders : live' = After(BuildPlanInOrder(desired, live, order), live)
      BY <2>3 DEF Apply
    <3>2. Sortable(desired) /\ UNCHANGED desired
      BY <2>3 DEF Apply
    <3>3. After(BuildPlanInOrder(desired, live, order), live) \in DagState
      BY <2>1, <3>2, Applied
    <3> QED
      BY <3>1, <3>2, <3>3 DEF TypeOK
  <2>4. CASE UNCHANGED replanVars
    BY <2>4 DEF replanVars, TypeOK
  <2> QED
    BY <2>2, <2>3, <2>4 DEF Next
<1> QED
  BY <1>1, <1>2, PTL DEF Spec

(* Whatever the classes of the changes, and whatever is promoted, an apply *)
(* leaves the tables of the files, each with the query of its file: the    *)
(* pieces of a plan (plan.rs:779-1083) together miss no change and undo    *)
(* none.                                                                   *)
THEOREM AppliesBringQueries == Spec => []ApplyBringsQueries
<1>1. TypeOK => ApplyBringsQueries
  <2> SUFFICES ASSUME TypeOK, Sortable(desired)
               PROVE  /\ Existing(After(Plan, live)) = Existing(desired)
                      /\ \A t \in Existing(desired) :
                           After(Plan, live)[t].query = desired[t].query
    BY DEF ApplyBringsQueries
  <2>1. desired \in DagState /\ live \in DagState
    BY DesiredAssumption DEF TypeOK
  <2> QED
    BY <2>1, AppliedQueries DEF Plan, BuildPlan
<1> QED
  BY <1>1, TypeCorrect, PTL

-----------------------------------------------------------------------------
(* The tables in the middle of a plan: those after the pieces before, with *)
(* a part of the piece.                                                    *)
LEMMA RanInPiece ==
  ASSUME NEW d \in DagState, NEW l \in DagState, NEW order, NEW k \in 1 .. Len(InOrder(d, l)),
         NEW a, NEW b, Around(d, l, order, k, a, b)
  PROVE  /\ After(a, l) \in DagState
         /\ \A n \in 0 .. Len(Piece(d, l, order, k)) :
              Ran(BuildPlanInOrder(d, l, order), l)[Len(a) + n] =
                Ran(Piece(d, l, order, k), After(a, l))[n]
<1> DEFINE N == Len(InOrder(d, l))
           plan == BuildPlanInOrder(d, l, order)
           p == Piece(d, l, order, k)
           A == Between(d, l, 1, k - 1)
           B == Between(d, l, k + 1, N)
<1>1. N \in Nat /\ k \in Nat /\ k - 1 \in Nat /\ k + 1 \in Nat /\ k + 1 >= 1 /\ k - 1 <= N
      /\ 1 \in Nat /\ 1 >= 1 /\ N <= N
  BY LengthOfOrder
<1>2. A \in SUBSET Table /\ B \in SUBSET Table
  <2> HIDE DEF N
  <2> QED
    BY <1>1, LengthOfOrder DEF N
<1>3. a \in Seq(PlanStep(d, A)) /\ b \in Seq(PlanStep(d, B)) /\ plan = Join(a, Join(p, b))
  BY DEF Around
<1>4. p \in Seq(TableStep(d, Table))
  BY PieceOfTable
<1> HIDE DEF N, plan, p, A, B
<1>5. a \in Seq(RunnableStep) /\ b \in Seq(RunnableStep)
  BY <1>2, <1>3, PlanStepsRun
<1>6. p \in Seq(RunnableStep)
  BY <1>4, StepsRun
<1> DEFINE pb == Join(p, b)
<1>7. pb \in Seq(RunnableStep)
  BY <1>5, <1>6, JoinInSeq
<1>8. /\ Len(p) \in Nat /\ Len(b) \in Nat /\ Len(pb) = Len(p) + Len(b)
  <2>1. Len(p \o b) = Len(p) + Len(b)
    BY <1>5, <1>6, ConcatProperties
  <2> QED
    BY <1>5, <1>6, <2>1, LenProperties DEF Join
<1> HIDE DEF pb
<1>9. plan = a \o pb
  BY <1>3 DEF Join, pb
<1>10. /\ After(a, l) \in DagState
       /\ \A n \in 0 .. Len(pb) : Ran(plan, l)[Len(a) + n] = Ran(pb, After(a, l))[n]
  BY <1>5, <1>7, <1>9, RanOfConcat
<1>11. \A n \in 0 .. Len(p) : Ran(pb, After(a, l))[n] = Ran(p, After(a, l))[n]
  BY <1>5, <1>6, <1>10, RanOfConcat DEF Join, pb
<1>12. \A n \in 0 .. Len(p) : n \in 0 .. Len(pb)
  BY <1>8
<1> QED
  BY <1>10, <1>11, <1>12 DEF plan, p

(* Whose step a step of a plan is.                                         *)
StepAt(d, l, step, k) ==
  step \in TableStep(d, {InOrder(d, l)[k]}) /\ step.table = InOrder(d, l)[k]

(* A step that is no bookkeeping is one of a piece.                        *)
LEMMA StepOfPiece ==
  ASSUME NEW d \in DagState, NEW l \in DagState, NEW order,
         NEW i \in 1 .. Len(BuildPlanInOrder(d, l, order)),
         BuildPlanInOrder(d, l, order)[i] \notin BookStep
  PROVE  \E k \in 1 .. Len(InOrder(d, l)) :
           StepAt(d, l, BuildPlanInOrder(d, l, order)[i], k)
<1> DEFINE N == Len(InOrder(d, l))
           T == Between(d, l, 1, N)
           plan == BuildPlanInOrder(d, l, order)
<1>1. plan \in Seq(PlanStep(d, T))
  BY PlanReaches
<1> HIDE DEF plan, T
<1>2. plan[i] \in PlanStep(d, T)
  BY <1>1 DEF plan
<1>3. plan[i] \in TableStep(d, T)
  BY <1>2 DEF PlanStep, plan
<1>4. plan[i].table \in T
  BY <1>3 DEF TableStep
<1>5. PICK k \in 1 .. N : plan[i].table = InOrder(d, l)[k]
  BY <1>4 DEF T, Between
<1>6. plan[i] \in TableStep(d, {InOrder(d, l)[k]})
  BY <1>3, <1>5 DEF TableStep
<1> QED
  BY <1>5, <1>6 DEF plan, StepAt

(* What a table reads is there before its piece: unchanged, or changed by  *)
(* an earlier piece.                                                       *)
LEMMA ReadsReached ==
  ASSUME NEW d \in DagState, NEW l \in DagState, NEW order, NEW k \in 1 .. Len(InOrder(d, l)),
         NEW dag, Reaches(d, l, order, dag, Between(d, l, 1, k - 1)),
         NEW u \in Upstream(d, InOrder(d, l)[k])
  PROVE  u # InOrder(d, l)[k] /\ u \in Table /\ dag[u] # Absent
<1> DEFINE ts == InOrder(d, l)
           C == Changed(d, l)
           T == Between(d, l, 1, k - 1)
<1>1. u \in Table /\ d[u] # Absent
  BY DEF Upstream, Existing
<1>2. /\ Len(ts) \in Nat /\ Distinct(ts) /\ ReadersLater(d, l, ts) /\ ts[k] \in C
  BY TablesInOrder, LengthOfOrder, PieceOfTable
<1>3. T \in SUBSET C
  <2>1. k - 1 \in Nat /\ k - 1 <= Len(ts) /\ 1 \in Nat /\ 1 >= 1
    BY <1>2
  <2> HIDE DEF ts
  <2> QED
    BY <2>1, LengthOfOrder DEF ts
<1>4. dag[u] = IF u \in T THEN OutcomeOf(d, l, order, u) ELSE l[u]
  BY <1>1 DEF Reaches
<1>5. ASSUME u \in C PROVE u \in T /\ u # ts[k]
  <2>1. PICK j \in 1 .. k - 1 : ts[j] = u
    BY <1>2, <1>5 DEF ReadersLater
  <2>2. j \in 1 .. Len(ts) /\ j # k
    BY <1>2, <2>1
  <2> HIDE DEF ts
  <2>3. u # ts[k]
    BY <1>2, <2>1, <2>2 DEF Distinct, ts
  <2> QED
    BY <2>1, <2>3 DEF Between, ts
<1>6. u # ts[k]
  BY <1>2, <1>5
<1>7. CASE u \in C
  <2>1. OutcomeOf(d, l, order, u) # Absent
    BY <1>1, <1>7, OutcomeIs DEF OutcomeOf
  <2> HIDE DEF C, T, ts
  <2> QED
    BY <1>1, <1>4, <1>5, <1>6, <1>7, <2>1 DEF ts
<1>8. CASE u \notin C
  <2>1. l[u] = d[u]
    BY <1>1, <1>8, KindSays DEF Changed
  <2> HIDE DEF C, T, ts
  <2> QED
    BY <1>1, <1>3, <1>4, <1>6, <1>8, <2>1 DEF ts
<1> QED
  BY <1>7, <1>8

(* So a table is created when everything that it reads is there.           *)
LEMMA CreatedAfterReads ==
  ASSUME NEW d \in DagState, NEW l \in DagState, NEW order,
         NEW i \in 1 .. Len(BuildPlanInOrder(d, l, order)),
         BuildPlanInOrder(d, l, order)[i].op = "CreateStreamTable"
  PROVE  BuildPlanInOrder(d, l, order)[i].args.query.reads \cap Existing(d)
           \subseteq Existing(Ran(BuildPlanInOrder(d, l, order), l)[i - 1])
<1> DEFINE plan == BuildPlanInOrder(d, l, order)
<1>1. plan[i] \notin BookStep
  BY BookSteps DEF TableChanges
<1>2. PICK k \in 1 .. Len(InOrder(d, l)) : StepAt(d, l, plan[i], k)
  <2>1. BuildPlanInOrder(d, l, order)[i] \notin BookStep
    BY <1>1
  <2> QED
    BY <2>1, StepOfPiece
<1> DEFINE t == InOrder(d, l)[k]
           p == Piece(d, l, order, k)
<1>3. PICK a, b : Around(d, l, order, k, a, b)
  BY PlanSplits
<1> DEFINE dag == After(a, l)
           m == i - Len(a)
<1>4. /\ Len(a) \in Nat /\ Len(p) \in Nat /\ m \in 1 .. Len(p)
  BY <1>2, <1>3, PieceInPlan DEF StepAt
<1>5. Reaches(d, l, order, dag, Between(d, l, 1, k - 1))
  BY <1>3 DEF Around
<1>6. /\ dag \in DagState
      /\ \A n \in 0 .. Len(p) : Ran(plan, l)[Len(a) + n] = Ran(p, dag)[n]
  BY <1>3, RanInPiece
<1>7. t \in Table /\ p \in Seq(TableStep(d, {t}))
  BY PieceOfTable
<1>8. d[t] # Absent /\ plan[i].args = d[t]
  <2>1. plan[i].args \in TableSpec /\ plan[i].args = d[t]
    BY <1>2 DEF TableStep, StepAt
  <2> QED
    BY <2>1, NullAssumption
<1>9. plan[i].args.query.reads \cap Existing(d) = Upstream(d, t)
  BY <1>8 DEF Upstream, DependsOn
<1>10. m - 1 \in 0 .. Len(p) /\ Len(a) + (m - 1) = i - 1
  <2>1. i \in Int /\ Len(a) \in Int
    BY <1>4
  <2> HIDE DEF p, plan
  <2> QED
    BY <1>4, <2>1
<1> HIDE DEF plan, p, t, dag, m
<1>11. Ran(plan, l)[i - 1] = Ran(p, dag)[m - 1]
  BY <1>6, <1>10
<1>12. ASSUME NEW u \in Upstream(d, t) PROVE u \in Existing(Ran(plan, l)[i - 1])
  <2>1. u # t /\ u \in Table /\ dag[u] # Absent
    BY <1>5, ReadsReached DEF t
  <2>2. {t} \in SUBSET Table
    BY <1>7
  <2>3. Ran(p, dag)[m - 1][u] = dag[u]
    BY <1>6, <1>7, <1>10, <2>1, <2>2, TableStepsRan
  <2> QED
    BY <1>11, <2>1, <2>3 DEF Existing
<1> QED
  BY <1>9, <1>12 DEF plan

(* Topological order (dag.rs, plan.rs:731): when a table is created, every *)
(* stream table its query reads exists, whatever was dropped, rebuilt or   *)
(* promoted on the way, and whatever the DAGs.                             *)
THEOREM CreatesFollowReads == Spec => []CreatedOnExistingTables
<1>1. TypeOK => CreatedOnExistingTables
  <2> SUFFICES ASSUME TypeOK, NEW i \in StepsOn(Plan, {"CreateStreamTable"})
               PROVE  Plan[i].args.query.reads \cap Existing(desired)
                        \subseteq Existing(Ran(Plan, live)[i - 1])
    BY DEF CreatedOnExistingTables
  <2>1. desired \in DagState /\ live \in DagState
    BY DesiredAssumption DEF TypeOK
  <2> DEFINE order == SetToSeq(ConvergenceNodes(desired, live))
  <2>2. Plan = BuildPlanInOrder(desired, live, order)
    BY DEF Plan, BuildPlan
  <2>3. BuildPlanInOrder(desired, live, order) \in Seq(RunnableStep)
    BY <2>1, PlanReaches
  <2>4. i \in 1 .. Len(Plan) /\ Plan[i].op = "CreateStreamTable"
    BY <2>2, <2>3 DEF StepsOn
  <2> HIDE DEF order
  <2> QED
    BY <2>1, <2>2, <2>4, CreatedAfterReads
<1> QED
  BY <1>1, TypeCorrect, PTL

-----------------------------------------------------------------------------
(* Applying the same files again and again.                                *)
Again(d, dag) == After(BuildPlan(d, dag), dag)

(* What an apply does, for the order that this plan takes.                 *)
LEMMA AgainIs ==
  ASSUME NEW d \in DagState, NEW l \in DagState, Sortable(d)
  PROVE  /\ Again(d, l) \in DagState
         /\ Existing(Again(d, l)) = Existing(d)
         /\ \A t \in Existing(d) : Again(d, l)[t].query = d[t].query
         /\ \A t \in Table \ Changed(d, l) : Again(d, l)[t] = d[t]
         /\ \E order \in Seq(ConvergenceNodes(d, l)) :
              \A t \in Changed(d, l) : Again(d, l)[t] = OutcomeOf(d, l, order, t)
<1> DEFINE order == SetToSeq(ConvergenceNodes(d, l))
<1>1. Again(d, l) = After(BuildPlanInOrder(d, l, order), l)
  BY DEF Again, BuildPlan
<1>2. order \in Seq(ConvergenceNodes(d, l))
  <2>1. ConvergenceNodes(d, l) \subseteq Table
    BY DEF ConvergenceNodes, Changed
  <2>2. IsFiniteSet(ConvergenceNodes(d, l))
    BY <2>1, TableIsFinite, FS_Subset
  <2> QED
    BY <2>2, ChosenOrder, OrderLists
<1> HIDE DEF order
<1> QED
  BY <1>1, <1>2, Applied, AppliedQueries

(* Once the queries agree, the changes left are of metadata.               *)
LEMMA MetadataLeft ==
  ASSUME NEW d \in DagState, NEW l \in DagState, Existing(l) = Existing(d),
         \A t \in Existing(d) : l[t].query = d[t].query,
         NEW t \in Changed(d, l)
  PROVE  /\ t \in Existing(d) /\ d[t] \in TableSpec /\ l[t] \in TableSpec
         /\ DeltaKind(d, l, t) \in MetadataKinds
         /\ \A c : Outcome(d, l, t, c) =
              IF c = "Rebuild" THEN Rebuilt(d[t], l[t])
              ELSE [d[t] EXCEPT !.cdc = OrElse(d[t].cdc, l[t].cdc)]
<1>1. t \in Table /\ DeltaKind(d, l, t) # "Unchanged"
  BY DEF Changed
<1>2. d[t] = Absent <=> l[t] = Absent
  BY <1>1 DEF Existing
<1>3. d[t] # Absent => l[t].query = d[t].query
  BY <1>1 DEF Existing
<1>4. DeltaKind(d, l, t) \in MetadataKinds
  BY <1>1, <1>2, <1>3, KindSays
<1>5. d[t] # Absent /\ l[t] # Absent
  BY <1>1, <1>4, KindSays
<1>6. \A c : Outcome(d, l, t, c) =
              IF c = "Rebuild" THEN Rebuilt(d[t], l[t])
              ELSE [d[t] EXCEPT !.cdc = OrElse(d[t].cdc, l[t].cdc)]
  BY <1>4 DEF Outcome, MetadataKinds
<1> QED
  BY <1>1, <1>4, <1>5, <1>6 DEF Existing, DagState

(* What a second apply may leave: a table that its rebuild set back to     *)
(* IMMEDIATE, or a CDC mode that the files do not name.                    *)
Nearly(spec, old) ==
  \/ old = [spec EXCEPT !.refresh = "IMMEDIATE"]
  \/ spec.cdc = None /\ old = [spec EXCEPT !.cdc = old.cdc]

(* An outcome of a change of metadata is the spec or nearly the spec.      *)
LEMMA SecondLeaves ==
  ASSUME NEW spec \in TableSpec, NEW old \in TableSpec, NEW c
  PROVE  LET outcome == IF c = "Rebuild" THEN Rebuilt(spec, old)
                        ELSE [spec EXCEPT !.cdc = OrElse(spec.cdc, old.cdc)]
         IN outcome = spec \/ Nearly(spec, outcome)
<1>1. CASE c = "Rebuild"
  BY <1>1 DEF Rebuilt, Nearly
<1>2. CASE c # "Rebuild" /\ spec.cdc = None
  <2> DEFINE o == [spec EXCEPT !.cdc = old.cdc]
  <2>1. OrElse(spec.cdc, old.cdc) = old.cdc
    BY <1>2 DEF OrElse
  <2>2. o.cdc = old.cdc
    BY DEF TableSpec
  <2>3. Nearly(spec, o)
    BY <1>2, <2>2 DEF Nearly
  <2> QED
    BY <1>2, <2>1, <2>3
<1>3. CASE c # "Rebuild" /\ spec.cdc # None
  <2>1. [spec EXCEPT !.cdc = spec.cdc] = spec
    BY DEF TableSpec
  <2> QED
    BY <1>3, <2>1 DEF OrElse
<1> QED
  BY <1>1, <1>2, <1>3

(* A change from nearly the spec to the spec is free.                      *)
LEMMA NearlyIsFree ==
  ASSUME NEW d \in DagState, NEW l \in DagState, NEW t \in Table,
         DeltaKind(d, l, t) \in MetadataKinds, Nearly(d[t], l[t]),
         d[t] \in TableSpec, l[t] \in TableSpec
  PROVE  ClassifyDelta(d, l, t) = "Free"
<1>1. ~(l[t].refresh = "FULL" /\ d[t].refresh = "DIFFERENTIAL")
  <2>1. CASE l[t] = [d[t] EXCEPT !.refresh = "IMMEDIATE"]
    <3>1. l[t].refresh = "IMMEDIATE"
      BY <2>1 DEF TableSpec
    <3> QED
      BY <3>1
  <2>2. CASE l[t] = [d[t] EXCEPT !.cdc = l[t].cdc]
    <3> DEFINE x == l[t].cdc
    <3>1. [d[t] EXCEPT !.cdc = x].refresh = d[t].refresh
      BY DEF TableSpec
    <3>2. l[t].refresh = d[t].refresh
      BY <2>2, <3>1
    <3> QED
      BY <3>2
  <2> QED
    BY <2>1, <2>2 DEF Nearly
<1> QED
  BY <1>1 DEF ClassifyDelta, MetadataKinds

(* When every table has nearly its spec, an apply rebuilds nothing and     *)
(* leaves at most a CDC mode that the files do not name.                   *)
LEMMA ThirdSettles ==
  ASSUME NEW d \in DagState, NEW l \in DagState, Sortable(d), Existing(l) = Existing(d),
         \A t \in Existing(d) : l[t].query = d[t].query /\ (l[t] = d[t] \/ Nearly(d[t], l[t])),
         NEW t \in Table, Again(d, l)[t] # d[t]
  PROVE  /\ t \in Existing(Again(d, l)) \cap Existing(d)
         /\ d[t].cdc = None
         /\ [Again(d, l)[t] EXCEPT !.cdc = None] = d[t]
<1> DEFINE C == Changed(d, l)
           end == Again(d, l)
<1>1. PICK order \in Seq(ConvergenceNodes(d, l)) :
        \A u \in C : end[u] = OutcomeOf(d, l, order, u)
  BY AgainIs
<1>2. t \in C
  BY AgainIs
<1>3. \A u \in C : ClassifyDelta(d, l, u) = "Free"
  <2> SUFFICES ASSUME NEW u \in C PROVE ClassifyDelta(d, l, u) = "Free"
    OBVIOUS
  <2>1. /\ u \in Existing(d) /\ d[u] \in TableSpec /\ l[u] \in TableSpec
        /\ DeltaKind(d, l, u) \in MetadataKinds
    BY MetadataLeft
  <2>2. u \in Table /\ l[u] # d[u]
    BY <2>1, KindSays DEF Changed
  <2> QED
    BY <2>1, <2>2, NearlyIsFree
<1>4. Promoted(d, l, order)[t] = "Free"
  BY <1>2, <1>3, PromotionReaches
<1>5. /\ t \in Existing(d) /\ d[t] \in TableSpec /\ l[t] \in TableSpec
      /\ \A c : Outcome(d, l, t, c) =
              IF c = "Rebuild" THEN Rebuilt(d[t], l[t])
              ELSE [d[t] EXCEPT !.cdc = OrElse(d[t].cdc, l[t].cdc)]
  BY <1>2, MetadataLeft
<1>6. end[t] = [d[t] EXCEPT !.cdc = OrElse(d[t].cdc, l[t].cdc)]
  <2>1. end[t] = Outcome(d, l, t, "Free")
    BY <1>1, <1>2, <1>4 DEF OutcomeOf
  <2> QED
    BY <1>5, <2>1
<1>7. Existing(end) = Existing(d)
  BY AgainIs
<1> HIDE DEF end
<1>8. d[t].cdc = None
  <2>1. [d[t] EXCEPT !.cdc = d[t].cdc] = d[t]
    BY <1>5 DEF TableSpec
  <2> QED
    BY <1>6, <2>1 DEF OrElse, end
<1>9. [end[t] EXCEPT !.cdc = None] = d[t]
  <2> DEFINE x == OrElse(d[t].cdc, l[t].cdc)
  <2> HIDE DEF x
  <2>1. \A spec \in TableSpec : spec.cdc = None =>
          [[spec EXCEPT !.cdc = x] EXCEPT !.cdc = None] = spec
    BY DEF TableSpec
  <2> QED
    BY <1>5, <1>6, <1>8, <2>1 DEF x
<1> QED
  BY <1>5, <1>7, <1>8, <1>9 DEF end

(* Once the queries agree, an apply leaves every table nearly its spec.    *)
LEMMA SecondReaches ==
  ASSUME NEW d \in DagState, NEW l \in DagState, Sortable(d), Existing(l) = Existing(d),
         \A t \in Existing(d) : l[t].query = d[t].query
  PROVE  \A t \in Existing(d) : Again(d, l)[t] = d[t] \/ Nearly(d[t], Again(d, l)[t])
<1> SUFFICES ASSUME NEW t \in Existing(d)
             PROVE  Again(d, l)[t] = d[t] \/ Nearly(d[t], Again(d, l)[t])
  OBVIOUS
<1> DEFINE end == Again(d, l)
<1>1. t \in Table
  BY DEF Existing
<1>2. CASE t \notin Changed(d, l)
  BY <1>1, <1>2, AgainIs
<1>3. CASE t \in Changed(d, l)
  <2>1. PICK order \in Seq(ConvergenceNodes(d, l)) :
          \A u \in Changed(d, l) : end[u] = OutcomeOf(d, l, order, u)
    BY AgainIs
  <2> DEFINE c == Promoted(d, l, order)[t]
  <2>2. end[t] = Outcome(d, l, t, c)
    BY <1>3, <2>1 DEF OutcomeOf
  <2> HIDE DEF c, end
  <2>3. /\ d[t] \in TableSpec /\ l[t] \in TableSpec
        /\ Outcome(d, l, t, c) =
              IF c = "Rebuild" THEN Rebuilt(d[t], l[t])
              ELSE [d[t] EXCEPT !.cdc = OrElse(d[t].cdc, l[t].cdc)]
    BY <1>3, MetadataLeft
  <2>4. end[t] = d[t] \/ Nearly(d[t], end[t])
    BY <2>2, <2>3, SecondLeaves
  <2> QED
    BY <2>4 DEF end
<1> QED
  BY <1>2, <1>3

(* Planning again converges, for all files and tables: a first apply       *)
(* brings the queries, a second one all metadata but what a rebuild sets   *)
(* back, a third one rebuilds nothing, so that only a CDC mode that the    *)
(* files no longer name (plan.rs:958 sends no NULL) is left.               *)
THEOREM AppliesSettle == Spec => []SettlesInThree
<1>1. TypeOK => SettlesInThree
  <2> DEFINE d == desired
             one == Again(d, live)
             two == Again(d, one)
             three == Again(d, two)
  <2> SUFFICES ASSUME TypeOK, Sortable(d), NEW t \in Table, three[t] # d[t]
               PROVE  /\ t \in Existing(three) \cap Existing(d)
                      /\ d[t].cdc = None
                      /\ [three[t] EXCEPT !.cdc = None] = d[t]
    BY DEF SettlesInThree, Again
  <2>1. d \in DagState /\ live \in DagState
    BY DesiredAssumption DEF TypeOK
  <2> HIDE DEF d, one, two, three
  <2>2. /\ one \in DagState /\ Existing(one) = Existing(d)
        /\ \A u \in Existing(d) : one[u].query = d[u].query
    BY <2>1, AgainIs DEF one
  <2>3. /\ two \in DagState /\ Existing(two) = Existing(d)
        /\ \A u \in Existing(d) : two[u].query = d[u].query
    BY <2>1, <2>2, AgainIs DEF two
  <2>4. \A u \in Existing(d) : two[u] = d[u] \/ Nearly(d[u], two[u])
    BY <2>1, <2>2, SecondReaches DEF two
  <2>5. Again(d, two)[t] # d[t]
    BY DEF three
  <2> QED
    BY <2>1, <2>3, <2>4, <2>5, ThirdSettles DEF three
<1> QED
  BY <1>1, TypeCorrect, PTL

-----------------------------------------------------------------------------
(* The promises of PlanPromises.  First the places of the bookkeeping.     *)
InnerStep(d) == TableStep(d, Table) \cup {Do("RunHook")}

Framed(plan, d) ==
  /\ Len(plan) \in Nat /\ Len(plan) >= 3
  /\ plan[1] = Do("LockDag") /\ plan[Len(plan)] = Do("UnlockDag")
  /\ plan[Len(plan) - 1] = Do("RecordSnapshot")
  /\ \A i \in 1 .. Len(plan) :
       i = 1 \/ i = Len(plan) \/ i = Len(plan) - 1 \/ plan[i] \in InnerStep(d)

(* Every plan is framed by its bookkeeping.                                *)
LEMMA PlanFramed ==
  ASSUME NEW d \in DagState, NEW l \in DagState, NEW order
  PROVE  Framed(BuildPlanInOrder(d, l, order), d)
<1> DEFINE N == Len(InOrder(d, l))
           plan == BuildPlanInOrder(d, l, order)
           S == InnerStep(d)
           U == PlanStep(d, Table)
           first == Do("LockDag")
           lock == <<first>>
           pre == HooksAt("pre")
           post == HooksAt("post")
<1>1. PICK upTo : BuildsBy(d, l, order, upTo)
  BY BuiltInPieces
<1> DEFINE u == upTo[N]
           m == Join(Join(pre, u), post)
           c == Join(lock, m)
<1>2. plan = Join(c, Ends)
  BY <1>1, PlanIs
<1>3. u \in Seq(TableStep(d, Table))
  BY <1>1, LengthOfOrder DEF BuildsBy
<1>4. pre \in Seq({Do("RunHook")}) /\ post \in Seq({Do("RunHook")})
      /\ lock \in Seq(BookStep) /\ Ends \in Seq(BookStep)
  BY Books
<1> HIDE DEF plan, u, pre, post, N
<1>5. u \in Seq(S) /\ pre \in Seq(S) /\ post \in Seq(S)
  BY <1>3, <1>4, SeqMonotonic DEF InnerStep
<1>6. S \subseteq U
  BY DEF InnerStep, PlanStep, BookStep
<1>7. lock \in Seq(U) /\ Ends \in Seq(U)
  <2>1. BookStep \subseteq U
    BY DEF PlanStep
  <2> HIDE DEF U, lock
  <2> QED
    BY <1>4, <2>1, SeqMonotonic
<1> HIDE DEF S, U, first
<1>8. m \in Seq(S)
  <2> DEFINE a == Join(pre, u)
  <2>1. a \in Seq(S)
    BY <1>5, JoinInSeq
  <2> HIDE DEF a
  <2>2. Join(a, post) \in Seq(S)
    BY <1>5, <2>1, JoinInSeq
  <2> QED
    BY <2>2 DEF a
<1> HIDE DEF m
<1>9. m \in Seq(U)
  BY <1>6, <1>8, SeqMonotonic
<1>10. Len(m) \in Nat /\ \A i \in 1 .. Len(m) : m[i] \in S
  BY <1>8
<1>11. Len(lock) = 1 /\ lock[1] = first
  OBVIOUS
<1> HIDE DEF lock
<1>12. /\ c \in Seq(U) /\ Len(c) = 1 + Len(m)
       /\ \A i \in 1 .. 1 : c[i] = lock[i]
       /\ \A i \in 1 .. Len(m) : c[1 + i] = m[i]
  <2>1. /\ lock \o m \in Seq(U) /\ Len(lock \o m) = Len(lock) + Len(m)
        /\ \A i \in 1 .. Len(lock) : (lock \o m)[i] = lock[i]
        /\ \A i \in 1 .. Len(m) : (lock \o m)[Len(lock) + i] = m[i]
    BY <1>7, <1>9, MembersOfConcat
  <2> QED
    BY <1>11, <2>1 DEF Join
<1> HIDE DEF c
<1>13. /\ Len(plan) = Len(c) + Len(Ends)
       /\ \A i \in 1 .. Len(c) : plan[i] = c[i]
       /\ \A i \in 1 .. Len(Ends) : plan[Len(c) + i] = Ends[i]
  <2>1. /\ Len(c \o Ends) = Len(c) + Len(Ends)
        /\ \A i \in 1 .. Len(c) : (c \o Ends)[i] = c[i]
        /\ \A i \in 1 .. Len(Ends) : (c \o Ends)[Len(c) + i] = Ends[i]
    <3>1. c \in Seq(U) /\ Ends \in Seq(U)
      BY <1>7, <1>12
    <3> QED
      BY <3>1, MembersOfConcat
  <2> QED
    BY <1>2, <2>1 DEF Join
<1>14. Len(Ends) = 2 /\ Ends[1] = Do("RecordSnapshot") /\ Ends[2] = Do("UnlockDag")
  BY DEF Ends
<1> DEFINE n == Len(plan)
<1>15. n = Len(m) + 3 /\ Len(c) = n - 2 /\ n \in Nat /\ n >= 3
  BY <1>10, <1>12, <1>13, <1>14
<1>16. plan[n] = Do("UnlockDag") /\ plan[n - 1] = Do("RecordSnapshot")
  <2>1. plan[Len(c) + 1] = Ends[1] /\ plan[Len(c) + 2] = Ends[2]
    BY <1>13, <1>14
  <2>2. Len(c) + 1 = n - 1 /\ Len(c) + 2 = n
    BY <1>15
  <2> QED
    BY <1>14, <2>1, <2>2
<1>17. plan[1] = first
  <2>1. 1 \in 1 .. Len(c)
    BY <1>10, <1>12
  <2> QED
    BY <1>11, <1>12, <1>13, <2>1
<1>18. ASSUME NEW i \in 1 .. n, i # 1, i # n, i # n - 1 PROVE plan[i] \in S
  <2>1. i \in 1 .. Len(c) /\ i - 1 \in 1 .. Len(m) /\ 1 + (i - 1) = i
    BY <1>10, <1>12, <1>15, <1>18
  <2>2. c[i] = m[i - 1]
    BY <1>12, <2>1
  <2> QED
    BY <1>10, <1>13, <2>1, <2>2
<1> QED
  BY <1>15, <1>16, <1>17, <1>18 DEF Framed, plan, S, first

(* Inside the frame are no lock, unlock and snapshot, and what is about a  *)
(* table names it.                                                         *)
LEMMA InnerSteps ==
  ASSUME NEW d \in DagState
  PROVE  /\ \A step \in InnerStep(d) :
              /\ step \in Step /\ step.op \notin {"LockDag", "UnlockDag", "RecordSnapshot"}
              /\ step.op \in TableOps => step.table \in Table
              /\ step.op = "CreateStreamTable" => step.args \in TableSpec
              /\ step.op \in TableChanges => step.table \in Table
         /\ \A op \in {"LockDag", "RecordSnapshot", "UnlockDag"} :
              /\ Do(op) \in Step /\ Do(op).op = op /\ Do(op).table = None
              /\ op \notin TableOps /\ op \notin TableChanges
<1>1. \A step \in TableStep(d, Table) :
        /\ step \in Step /\ step.op \notin {"LockDag", "UnlockDag", "RecordSnapshot", "RunHook"}
        /\ step.table \in Table
        /\ step.op = "CreateStreamTable" => step.args \in TableSpec
  BY DEF TableStep, QuietOps, SwitchOps, TableChanges
<1>2. /\ Do("RunHook") \in Step /\ Do("RunHook").op = "RunHook" /\ Do("RunHook").table = None
      /\ "RunHook" \notin TableOps /\ "RunHook" \notin TableChanges
  BY SpecIsArgs DEF Do, Step, Op, TableOps, TableChanges
<1>3. None \notin Table
  BY NullAssumption
<1>4. ASSUME NEW op \in {"LockDag", "RecordSnapshot", "UnlockDag"}
      PROVE  /\ Do(op) \in Step /\ Do(op).op = op /\ Do(op).table = None
             /\ op \notin TableOps /\ op \notin TableChanges
  BY <1>4, SpecIsArgs DEF Do, Step, Op, TableOps, TableChanges
<1>5. ASSUME NEW step \in InnerStep(d)
      PROVE  /\ step \in Step /\ step.op \notin {"LockDag", "UnlockDag", "RecordSnapshot"}
             /\ step.op \in TableOps => step.table \in Table
             /\ step.op = "CreateStreamTable" => step.args \in TableSpec
             /\ step.op \in TableChanges => step.table \in Table
  <2>1. CASE step \in TableStep(d, Table)
    BY <1>1, <2>1
  <2>2. CASE step = Do("RunHook")
    BY <1>2, <1>3, <2>2
  <2> QED
    BY <2>1, <2>2 DEF InnerStep
<1> QED
  BY <1>4, <1>5

(* So every plan is well-formed.                                           *)
LEMMA PlanWellFormed ==
  ASSUME NEW d \in DagState, NEW l \in DagState, NEW order
  PROVE  WellFormed(BuildPlanInOrder(d, l, order))
<1> DEFINE plan == BuildPlanInOrder(d, l, order)
           n == Len(plan)
<1>1. Framed(plan, d)
  BY PlanFramed
<1>2. plan \in Seq(RunnableStep)
  BY PlanReaches
<1> HIDE DEF plan
<1>3. plan \in Seq(Step)
  BY <1>2, SeqMonotonic DEF RunnableStep
<1>4. DOMAIN plan = 1 .. n
  BY <1>3
<1> HIDE DEF n
<1>5. n \in Nat /\ n >= 3
  BY <1>1 DEF Framed, n
<1>6. \A i \in 1 .. n : \/ i = 1 /\ plan[i] = Do("LockDag")
                        \/ i = n /\ plan[i] = Do("UnlockDag")
                        \/ i = n - 1 /\ plan[i] = Do("RecordSnapshot")
                        \/ plan[i] \in InnerStep(d)
  BY <1>1 DEF Framed, n
<1>7. plan[1].op = "LockDag" /\ plan[n].op = "UnlockDag"
  BY <1>1, InnerSteps DEF Framed, n
<1>8. ASSUME NEW i \in 1 .. n
      PROVE  /\ i # 1 => plan[i].op # "LockDag"
             /\ i # n => plan[i].op # "UnlockDag"
             /\ plan[i].op \in TableOps => plan[i].table \in Table
             /\ plan[i].op = "CreateStreamTable" => plan[i].args \in TableSpec
  <2>1. CASE i = 1 /\ plan[i] = Do("LockDag")
    BY <2>1, InnerSteps DEF TableOps
  <2>2. CASE i = n /\ plan[i] = Do("UnlockDag")
    BY <2>2, InnerSteps DEF TableOps
  <2>3. CASE plan[i] = Do("RecordSnapshot")
    BY <2>3, InnerSteps DEF TableOps
  <2>4. CASE plan[i] \in InnerStep(d)
    BY <2>4, InnerSteps
  <2> QED
    BY <1>6, <2>1, <2>2, <2>3, <2>4
<1>9. \A i \in 2 .. n : i \in 1 .. n /\ i # 1
  BY <1>5
<1>10. \A i \in 1 .. (n - 1) : i \in 1 .. n /\ i # n
  BY <1>5
<1>11. n >= 2
  BY <1>5
<1> QED
  BY <1>3, <1>4, <1>7, <1>8, <1>9, <1>10, <1>11 DEF WellFormed, n, plan

(* A piece that pauses its table does not alter it.                        *)
LEMMA PieceSwitches ==
  ASSUME NEW d \in DagState, NEW l \in DagState, NEW t \in Table, NEW c
  PROVE  LET s == StepsFor(d, l, t, c) IN
         \A i, j \in 1 .. Len(s) : s[i].op \in SwitchOps => s[j].op # "AlterStreamTable"
<1> DEFINE s == StepsFor(d, l, t, c)
           w == DoOn("WaitForRefresh", t)
           v == DoOn("ValidateQuery", t)
           p == Pause(t)
           r == Resume(t)
           x == Drop(t)
           y == Create(t, d[t])
           z == DoOn("RecreatePolicy", t)
           b == DoOn("Backfill", t)
           o == DoOn("DetachOutbox", t)
           q == DoOn("ManageWalSlot", t)
           aq == DoWith("AlterStreamTable", t, QueryArgs(d[t]))
           am == DoWith("AlterStreamTable", t, MetadataArgs(d[t], l[t]))
<1> SUFFICES \A i, j \in 1 .. Len(s) : s[i].op \in SwitchOps => s[j].op # "AlterStreamTable"
  OBVIOUS
<1>1. /\ \A step \in {w, v, p, r, x, y, z, b, o, q} : step.op # "AlterStreamTable"
      /\ \A step \in {w, v, x, y, z, b, o, q, aq, am} : step.op \notin SwitchOps
  BY DEF DoOn, DoWith, Pause, Resume, Drop, Create, SwitchOps
<1>2. ASSUME NEW first \in BOOLEAN, s = RebuildSteps(t, d[t], l[t], first)
      PROVE  \A j \in 1 .. Len(s) : s[j].op # "AlterStreamTable"
  <2>1. s = IF l[t].refresh = "IMMEDIATE"
            THEN IF first THEN <<v, p, w, x, y, z, b, r>> ELSE <<p, w, v, x, y, z, b, r>>
            ELSE IF first THEN <<v, w, x, y, z, b>> ELSE <<w, v, x, y, z, b>>
    BY <1>2, RebuildIs
  <2> HIDE DEF s, w, v, p, r, x, y, z, b, o, q, aq, am
  <2>2. \A j \in 1 .. Len(s) : s[j] \in {w, v, p, r, x, y, z, b, o, q}
    BY <2>1
  <2> QED
    BY <1>1, <2>2
<1>3. ASSUME s = CreateSteps(t, d[t]) \/ s = Altered(d, l, t) \/ s = Requeried(d, t)
      PROVE  \A j \in 1 .. Len(s) : s[j].op \notin SwitchOps
  <2>1. s = <<v, y, b>> \/ s = <<am>> \/ s = <<v, aq, b>>
    BY <1>3 DEF CreateSteps, Altered, Requeried, Create
  <2> HIDE DEF s, w, v, p, r, x, y, z, b, o, q, aq, am
  <2>2. \A j \in 1 .. Len(s) : s[j] \in {w, v, x, y, z, b, o, q, aq, am}
    BY <2>1
  <2> QED
    BY <1>1, <2>2
<1>4. ASSUME s = DropSteps(t, l[t])
      PROVE  \A j \in 1 .. Len(s) : s[j].op \notin SwitchOps
  <2>1. s = CASE l[t].cdc = "outbox" -> <<w, o, x>>
              [] l[t].cdc = "wal" -> <<w, q, x>>
              [] OTHER -> <<w, x>>
    BY <1>4, DropIs
  <2> HIDE DEF s, w, v, p, r, x, y, z, b, o, q, aq, am
  <2>2. \A j \in 1 .. Len(s) : s[j] \in {w, v, x, y, z, b, o, q, aq, am}
    BY <2>1
  <2> QED
    BY <1>1, <2>2
<1>5. \/ s = <<>>
      \/ s = CreateSteps(t, d[t]) \/ s = Altered(d, l, t) \/ s = Requeried(d, t)
      \/ s = DropSteps(t, l[t])
      \/ s = RebuildSteps(t, d[t], l[t], TRUE)
      \/ s = RebuildSteps(t, d[t], l[t], FALSE)
  BY PieceIs
<1>6. TRUE \in BOOLEAN /\ FALSE \in BOOLEAN
  OBVIOUS
<1>7. s = <<>> => 1 .. Len(s) = {}
  OBVIOUS
<1> HIDE DEF s
<1> QED
  BY <1>2, <1>3, <1>4, <1>5, <1>6, <1>7

(* Nor does a plan, which has one piece for each table.                    *)
LEMMA PlanSwitches ==
  ASSUME NEW d \in DagState, NEW l \in DagState, NEW order
  PROVE  SwitchesApart(BuildPlanInOrder(d, l, order))
<1> DEFINE plan == BuildPlanInOrder(d, l, order)
<1>1. plan \in Seq(RunnableStep)
  BY PlanReaches
<1>2. DOMAIN plan = 1 .. Len(plan)
  <2> HIDE DEF plan
  <2> QED
    BY <1>1
<1> SUFFICES ASSUME NEW i \in 1 .. Len(plan), plan[i].op \in SwitchOps
             PROVE  /\ plan[i].args.query = None
                    /\ \A j \in 1 .. Len(plan) :
                         plan[j].op = "AlterStreamTable" => plan[j].table # plan[i].table
  BY <1>2 DEF SwitchesApart, SwitchOps
<1>3. plan[i] \notin BookStep
  BY BookSteps
<1>4. PICK k \in 1 .. Len(InOrder(d, l)) : StepAt(d, l, plan[i], k)
  BY <1>3, StepOfPiece
<1> DEFINE t == InOrder(d, l)[k]
           p == Piece(d, l, order, k)
<1>5. PICK a, b : Around(d, l, order, k, a, b)
  BY PlanSplits
<1>6. plan[i].table = t /\ plan[i] \in TableStep(d, {t})
  BY <1>4 DEF StepAt
<1>7. plan[i].args.query = None
  BY <1>6 DEF TableStep
<1>8. \A j \in 1 .. Len(plan) : plan[j].table = t =>
        j - Len(a) \in 1 .. Len(p) /\ plan[j] = p[j - Len(a)]
  BY <1>5, PieceInPlan
<1>9. t \in Table /\ p = StepsFor(d, l, t, Promoted(d, l, order)[t])
  BY PieceOfTable DEF Piece
<1> HIDE DEF plan, t, p
<1>10. \A m, n \in 1 .. Len(p) : p[m].op \in SwitchOps => p[n].op # "AlterStreamTable"
  BY <1>9, PieceSwitches
<1>11. ASSUME NEW j \in 1 .. Len(plan), plan[j].op = "AlterStreamTable", plan[j].table = t
       PROVE  FALSE
  BY <1>6, <1>8, <1>10, <1>11
<1> QED
  BY <1>6, <1>7, <1>11

(* What the executor assumes of the planner (PlanAssumption and            *)
(* SwitchAssumption of Executor) holds of every plan that                  *)
(* build_plan_with_options makes, for all files and tables: it takes the   *)
(* lock first and gives it back last, every step about a table names one,  *)
(* and no table is both paused and altered (plan.rs:753-1091).             *)
THEOREM PlansAreWellFormed ==
  \A d, l \in DagState : WellFormed(BuildPlan(d, l)) /\ SwitchesApart(BuildPlan(d, l))
BY PlanWellFormed, PlanSwitches DEF BuildPlan

-----------------------------------------------------------------------------
(* FitsTable, of the places `at' of a sequence of steps.                   *)
One(step, d, l, t) ==
  /\ d[t] # l[t]
  /\ \/ Creates(step, d, t)
     \/ Alters(step, d, l, t)
     \/ step.op = "DropStreamTable" /\ d[t] = Absent

Two(first, second, d, l, t) ==
  d[t] # l[t] /\ first.op = "DropStreamTable" /\ Creates(second, d, t)

Fits(s, at, d, l, t) ==
  \/ at = {} /\ SameQuery(d, l, t)
  \/ \E i \in at : at = {i} /\ One(s[i], d, l, t)
  \/ \E i, j \in at : i < j /\ at = {i, j} /\ Two(s[i], s[j], d, l, t)

(* Sequences with the same steps in the same order fit alike.              *)
Matches(s, at, u, to, f) ==
  /\ \A i \in to : f[i] \in at /\ u[i] = s[f[i]]
  /\ \A m \in at : \E i \in to : f[i] = m
  /\ \A i, j \in to : i < j => f[i] < f[j]

(* What fits in one sequence fits in a matching one.                       *)
LEMMA FitsAlike ==
  ASSUME NEW s, NEW u, NEW at \in SUBSET Nat, NEW to \in SUBSET Nat, NEW f,
         Matches(s, at, u, to, f), NEW d, NEW l, NEW t, Fits(s, at, d, l, t)
  PROVE  Fits(u, to, d, l, t)
<1>1. \A i, j \in to : f[i] = f[j] => i = j
  <2> SUFFICES ASSUME NEW i \in to, NEW j \in to, f[i] = f[j] PROVE i = j
    OBVIOUS
  <2> DEFINE m == f[i]
             n == f[j]
  <2>1. m \in Nat /\ n \in Nat /\ m = n /\ (i < j => m < n) /\ (j < i => n < m)
    BY DEF Matches
  <2> HIDE DEF m, n
  <2> QED
    BY <2>1
<1>2. CASE at = {} /\ SameQuery(d, l, t)
  <2>1. to = {}
    BY <1>2 DEF Matches
  <2> QED
    BY <1>2, <2>1 DEF Fits
<1>3. ASSUME NEW m \in at, at = {m}, One(s[m], d, l, t) PROVE Fits(u, to, d, l, t)
  <2>1. PICK i \in to : f[i] = m
    BY DEF Matches
  <2>2. \A j \in to : j = i
    BY <1>1, <1>3, <2>1 DEF Matches
  <2>3. to = {i} /\ u[i] = s[m]
    BY <2>1, <2>2 DEF Matches
  <2> QED
    BY <1>3, <2>3 DEF Fits
<1>4. ASSUME NEW m \in at, NEW n \in at, m < n, at = {m, n}, Two(s[m], s[n], d, l, t)
      PROVE  Fits(u, to, d, l, t)
  <2>1. PICK i \in to : f[i] = m
    BY DEF Matches
  <2>2. PICK j \in to : f[j] = n
    BY DEF Matches
  <2>3. \A k \in to : k = i \/ k = j
    BY <1>1, <1>4, <2>1, <2>2 DEF Matches
  <2>4. to = {i, j} /\ u[i] = s[m] /\ u[j] = s[n]
    BY <2>1, <2>2, <2>3 DEF Matches
  <2>5. i < j
    <3>1. (j < i => n < m) /\ m \in Nat /\ n \in Nat
      BY <2>1, <2>2 DEF Matches
    <3>2. i # j
      BY <1>4, <2>1, <2>2, <3>1
    <3>3. i \in Nat /\ j \in Nat
      OBVIOUS
    <3> QED
      BY <1>4, <3>1, <3>2, <3>3
  <2> QED
    BY <1>4, <2>4, <2>5 DEF Fits
<1> QED
  BY <1>2, <1>3, <1>4 DEF Fits

ChangesIn(s) == {i \in 1 .. Len(s) : s[i].op \in TableChanges}

ChangesOf(s, t) == {i \in 1 .. Len(s) : s[i].op \in TableChanges /\ s[i].table = t}

(* A piece creates, alters, drops or rebuilds its table; it alters a query *)
(* in place only over the same FROM, WHERE and GROUP BY.                   *)
LEMMA PieceFits ==
  ASSUME NEW d \in DagState, NEW l \in DagState, NEW t \in Changed(d, l), NEW c,
         ClassRank(c) >= ClassRank(ClassifyDelta(d, l, t))
  PROVE  Fits(StepsFor(d, l, t, c), ChangesIn(StepsFor(d, l, t, c)), d, l, t)
<1> DEFINE s == StepsFor(d, l, t, c)
           kind == DeltaKind(d, l, t)
           D == ChangesIn(s)
           w == DoOn("WaitForRefresh", t)
           v == DoOn("ValidateQuery", t)
           p == Pause(t)
           r == Resume(t)
           x == Drop(t)
           y == Create(t, d[t])
           z == DoOn("RecreatePolicy", t)
           b == DoOn("Backfill", t)
           o == DoOn("DetachOutbox", t)
           q == DoOn("ManageWalSlot", t)
           aq == DoWith("AlterStreamTable", t, QueryArgs(d[t]))
           am == DoWith("AlterStreamTable", t, MetadataArgs(d[t], l[t]))
<1> SUFFICES Fits(s, D, d, l, t)
  OBVIOUS
<1>1. /\ \A step \in {w, v, p, r, z, b, o, q} : step.op \notin TableChanges
      /\ \A step \in {x, y, aq, am} : step.op \in TableChanges
      /\ x.op = "DropStreamTable" /\ (d[t] # Absent => Creates(y, d, t))
  BY DEF DoOn, DoWith, Pause, Resume, Drop, Create, TableChanges, Creates
<1>2. t \in Table /\ kind # "Unchanged"
  BY DEF Changed
<1>3. d[t] # l[t]
  BY <1>2, KindSays
<1>4. D = {i \in 1 .. Len(s) : s[i].op \in TableChanges}
  BY DEF ChangesIn
<1>5. ASSUME NEW first \in BOOLEAN, s = RebuildSteps(t, d[t], l[t], first), d[t] # Absent
      PROVE  Fits(s, D, d, l, t)
  <2>1. s = IF l[t].refresh = "IMMEDIATE"
            THEN IF first THEN <<v, p, w, x, y, z, b, r>> ELSE <<p, w, v, x, y, z, b, r>>
            ELSE IF first THEN <<v, w, x, y, z, b>> ELSE <<w, v, x, y, z, b>>
    BY <1>5, RebuildIs
  <2>2. Two(x, y, d, l, t)
    BY <1>1, <1>3, <1>5 DEF Two
  <2> HIDE DEF s, D, w, v, p, r, x, y, z, b, o, q, aq, am
  <2>3. ASSUME s = <<v, p, w, x, y, z, b, r>> \/ s = <<p, w, v, x, y, z, b, r>>
        PROVE  D = {4, 5} /\ s[4] = x /\ s[5] = y
    <3>1. Len(s) = 8 /\ s[1] \in {v, p} /\ s[2] \in {p, w} /\ s[3] \in {w, v} /\ s[4] = x
          /\ s[5] = y /\ s[6] = z /\ s[7] = b /\ s[8] = r
      BY <2>3
    <3> HIDE DEF s
    <3>2. \A i \in 1 .. 8 : s[i].op \in TableChanges <=> i \in {4, 5}
      BY <1>1, <3>1
    <3>3. D = {i \in 1 .. 8 : s[i].op \in TableChanges}
      BY <1>4, <3>1
    <3>4. 4 \in 1 .. 8 /\ 5 \in 1 .. 8
      OBVIOUS
    <3> QED
      BY <3>1, <3>2, <3>3, <3>4
  <2>4. ASSUME s = <<v, w, x, y, z, b>> \/ s = <<w, v, x, y, z, b>>
        PROVE  D = {3, 4} /\ s[3] = x /\ s[4] = y
    <3>1. Len(s) = 6 /\ s[1] \in {v, w} /\ s[2] \in {v, w} /\ s[3] = x /\ s[4] = y /\ s[5] = z /\ s[6] = b
      BY <2>4
    <3>2. \A i \in 1 .. 6 : s[i].op \in TableChanges <=> i \in {3, 4}
      BY <1>1, <3>1
    <3>3. D = {i \in 1 .. 6 : s[i].op \in TableChanges}
      BY <1>4, <3>1
    <3>4. 3 \in 1 .. 6 /\ 4 \in 1 .. 6
      OBVIOUS
    <3> QED
      BY <3>1, <3>2, <3>3, <3>4
  <2>5. \/ s = <<v, p, w, x, y, z, b, r>> \/ s = <<p, w, v, x, y, z, b, r>>
        \/ s = <<v, w, x, y, z, b>> \/ s = <<w, v, x, y, z, b>>
    BY <2>1
  <2>6. 3 < 4 /\ 4 < 5
    OBVIOUS
  <2> QED
    BY <2>2, <2>3, <2>4, <2>5, <2>6 DEF Fits
<1>6. CASE kind = "Create" /\ s = CreateSteps(t, d[t])
  <2>1. s = <<v, y, b>> /\ One(y, d, l, t)
    BY <1>1, <1>2, <1>3, <1>6, KindSays DEF CreateSteps, Create, One
  <2> HIDE DEF s, D, w, v, p, r, x, y, z, b, o, q, aq, am
  <2>2. Len(s) = 3 /\ s[1] = v /\ s[2] = y /\ s[3] = b
    BY <2>1
  <2>3. D = {2}
    BY <1>1, <1>4, <2>2
  <2> QED
    BY <2>1, <2>2, <2>3 DEF Fits
<1>7. CASE kind = "Drop" /\ s = DropSteps(t, l[t])
  <2>1. s = CASE l[t].cdc = "outbox" -> <<w, o, x>>
              [] l[t].cdc = "wal" -> <<w, q, x>>
              [] OTHER -> <<w, x>>
    BY <1>7, DropIs
  <2>2. d[t] = Absent
    BY <1>2, <1>7, KindSays
  <2>3. One(x, d, l, t)
    BY <1>1, <1>3, <2>2 DEF One
  <2> HIDE DEF s, D, w, v, p, r, x, y, z, b, o, q, aq, am
  <2>4. CASE s = <<w, o, x>> \/ s = <<w, q, x>>
    <3>1. Len(s) = 3 /\ s[1] = w /\ s[2] \in {o, q} /\ s[3] = x
      BY <2>4
    <3>2. D = {3}
      BY <1>1, <1>4, <3>1
    <3> QED
      BY <2>3, <3>1, <3>2 DEF Fits
  <2>5. CASE s = <<w, x>>
    <3>1. Len(s) = 2 /\ s[1] = w /\ s[2] = x
      BY <2>5
    <3>2. D = {2}
      BY <1>1, <1>4, <3>1
    <3> QED
      BY <2>3, <3>1, <3>2 DEF Fits
  <2> QED
    BY <2>1, <2>4, <2>5
<1>8. CASE kind \in MetadataKinds /\ s = Altered(d, l, t)
  <2>1. /\ d[t] \in TableSpec /\ l[t] \in TableSpec /\ d[t] # Absent /\ l[t] # Absent
        /\ d[t].query = l[t].query
    BY <1>2, <1>8, KindSays DEF DagState
  <2>2. MetadataArgs(d[t], l[t]).query = None
    BY <2>1, MetadataIs
  <2>3. Alters(am, d, l, t)
    BY <2>1, <2>2 DEF Alters, OrElse, DoWith
  <2>4. s = <<am>> /\ One(am, d, l, t)
    BY <1>3, <1>8, <2>3 DEF Altered, One
  <2> HIDE DEF s, D, w, v, p, r, x, y, z, b, o, q, aq, am
  <2>5. Len(s) = 1 /\ s[1] = am
    BY <2>4
  <2>6. D = {1}
    BY <1>1, <1>4, <2>5
  <2> QED
    BY <2>4, <2>5, <2>6 DEF Fits
<1>9. CASE kind = "AlterQuery" /\ c = "InPlace" /\ s = Requeried(d, t)
  <2>1. d[t] \in TableSpec /\ l[t] \in TableSpec /\ d[t] # Absent /\ l[t] # Absent
    BY <1>2, <1>9, KindSays DEF DagState
  <2>2. QueryArgs(d[t]).query = d[t].query /\ d[t].query # None
    <3>1. d[t].query \in Query /\ None \notin Query
      BY <2>1, NullAssumption DEF TableSpec
    <3> QED
      BY <3>1 DEF QueryArgs, NoArgs
  <2>3. d[t].query.shape = l[t].query.shape
    <3>1. ASSUME d[t].query.shape # l[t].query.shape PROVE FALSE
      <4>1. ClassifyDelta(d, l, t) = "Rebuild"
        BY <1>9, <3>1 DEF ClassifyDelta, ClassifyQueryChange
      <4>2. ClassRank("Rebuild") = 2 /\ ClassRank("InPlace") = 1
        BY DEF ClassRank
      <4>3. ClassRank("InPlace") >= ClassRank("Rebuild")
        BY <1>9, <4>1
      <4> QED
        BY <4>2, <4>3
    <3> QED
      BY <3>1
  <2>4. Alters(aq, d, l, t)
    BY <2>1, <2>2, <2>3 DEF Alters, OrElse, DoWith
  <2>5. s = <<v, aq, b>> /\ One(aq, d, l, t)
    BY <1>3, <1>9, <2>4 DEF Requeried, One
  <2> HIDE DEF s, D, w, v, p, r, x, y, z, b, o, q, aq, am
  <2>6. Len(s) = 3 /\ s[1] = v /\ s[2] = aq /\ s[3] = b
    BY <2>5
  <2>7. D = {2}
    BY <1>1, <1>4, <2>6
  <2> QED
    BY <2>5, <2>6, <2>7 DEF Fits
<1>10. \/ kind = "Create" /\ s = CreateSteps(t, d[t])
       \/ kind = "Drop" /\ s = DropSteps(t, l[t])
       \/ kind \in MetadataKinds /\ s = Altered(d, l, t)
       \/ kind = "AlterQuery" /\ c = "InPlace" /\ s = Requeried(d, t)
       \/ kind = "AlterQuery" /\ s = RebuildSteps(t, d[t], l[t], TRUE)
       \/ kind \in MetadataKinds /\ s = RebuildSteps(t, d[t], l[t], FALSE)
  <2>1. \/ kind = "Unchanged" /\ s = <<>>
        \/ kind = "Create" /\ s = CreateSteps(t, d[t])
        \/ kind = "Drop" /\ s = DropSteps(t, l[t])
        \/ kind \in MetadataKinds /\ c # "Rebuild" /\ s = Altered(d, l, t)
        \/ kind = "AlterQuery" /\ c = "InPlace" /\ s = Requeried(d, t)
        \/ /\ kind = "AlterQuery" /\ c # "InPlace"
           /\ s = RebuildSteps(t, d[t], l[t], TRUE)
        \/ /\ kind \in MetadataKinds /\ c = "Rebuild"
           /\ s = RebuildSteps(t, d[t], l[t], FALSE)
    <3>1. t \in Table
      BY <1>2
    <3> QED
      BY <3>1, PieceIs
  <2> HIDE DEF kind, s, D
  <2> QED
    BY <1>2, <2>1
<1>11. kind = "AlterQuery" \/ kind \in MetadataKinds => d[t] # Absent
  BY <1>2, KindSays
<1>12. TRUE \in BOOLEAN /\ FALSE \in BOOLEAN
  OBVIOUS
<1> HIDE DEF s, kind, D
<1> QED
  BY <1>5, <1>6, <1>7, <1>8, <1>9, <1>10, <1>11, <1>12

(* A table is changed by its piece only, so the plan fits it as well.      *)
LEMMA PlanFits ==
  ASSUME NEW d \in DagState, NEW l \in DagState, Sortable(d),
         NEW order \in Seq(ConvergenceNodes(d, l)), NEW t \in Table
  PROVE  Fits(BuildPlanInOrder(d, l, order), ChangesOf(BuildPlanInOrder(d, l, order), t), d, l, t)
<1> DEFINE plan == BuildPlanInOrder(d, l, order)
           E == ChangesOf(plan, t)
<1>1. plan \in Seq(RunnableStep)
  BY PlanReaches
<1>2. Len(plan) \in Nat
  <2> HIDE DEF plan
  <2> QED
    BY <1>1
<1>3. CASE t \notin Changed(d, l)
  <2>1. d[t] = l[t]
    BY <1>3, KindSays DEF Changed
  <2>2. ASSUME NEW i \in E PROVE FALSE
    <3>1. i \in 1 .. Len(plan) /\ plan[i].table = t /\ plan[i] \notin BookStep
      BY BookSteps DEF ChangesOf
    <3>2. PICK k \in 1 .. Len(InOrder(d, l)) : StepAt(d, l, plan[i], k)
      BY <3>1, StepOfPiece
    <3>3. InOrder(d, l)[k] \in Changed(d, l)
      BY PieceOfTable
    <3> QED
      BY <1>3, <3>1, <3>2, <3>3 DEF StepAt
  <2>3. SameQuery(d, l, t)
    BY <2>1 DEF SameQuery
  <2>4. E = {}
    BY <2>2
  <2> HIDE DEF E, plan
  <2>5. Fits(plan, E, d, l, t)
    BY <2>3, <2>4 DEF Fits
  <2> QED
    BY <2>5 DEF E, plan
<1>4. CASE t \in Changed(d, l)
  <2>1. PICK k \in 1 .. Len(InOrder(d, l)) : InOrder(d, l)[k] = t
    <3>1. t \in ToSet(InOrder(d, l)) /\ InOrder(d, l) \in Seq(Changed(d, l))
      BY <1>4, TablesInOrder
    <3> QED
      BY <3>1, Members
  <2> DEFINE p == Piece(d, l, order, k)
             c == Promoted(d, l, order)[t]
             D == ChangesIn(p)
  <2>2. PICK a, b : Around(d, l, order, k, a, b)
    BY PlanSplits
  <2>3. /\ Len(a) \in Nat /\ Len(p) \in Nat
        /\ \A m \in 1 .. Len(p) : Len(a) + m \in 1 .. Len(plan) /\ plan[Len(a) + m] = p[m]
        /\ \A i \in 1 .. Len(plan) : plan[i].table = t =>
             i - Len(a) \in 1 .. Len(p) /\ plan[i] = p[i - Len(a)]
    BY <2>1, <2>2, PieceInPlan
  <2>4. p = StepsFor(d, l, t, c) /\ p \in Seq(TableStep(d, {t}))
    BY <2>1, PieceOfTable DEF Piece
  <2>5. ClassRank(c) >= ClassRank(ClassifyDelta(d, l, t))
    BY <1>4, PromotionReaches
  <2>6. Fits(p, D, d, l, t)
    <3> HIDE DEF c
    <3> QED
      BY <1>4, <2>4, <2>5, PieceFits
  <2>7. \A m \in 1 .. Len(p) : p[m].table = t
    <3> HIDE DEF p
    <3> QED
      BY <2>4 DEF TableStep
  <2> DEFINE f == [i \in E |-> i - Len(a)]
  <2> HIDE DEF p, plan
  <2>8. Matches(p, D, plan, E, f)
    <3>1. ASSUME NEW i \in E PROVE f[i] \in D /\ plan[i] = p[f[i]]
      BY <2>3 DEF ChangesOf, ChangesIn
    <3>2. ASSUME NEW m \in D PROVE \E i \in E : f[i] = m
      <4>1. m \in 1 .. Len(p) /\ p[m].op \in TableChanges
        BY DEF ChangesIn
      <4> DEFINE i == Len(a) + m
      <4>2. i \in 1 .. Len(plan) /\ plan[i] = p[m] /\ i - Len(a) = m
        BY <2>3, <4>1
      <4>3. i \in E
        BY <2>7, <4>1, <4>2 DEF ChangesOf
      <4> HIDE DEF i, E
      <4> QED
        BY <4>2, <4>3
    <3>3. ASSUME NEW i \in E, NEW j \in E, i < j PROVE f[i] < f[j]
      BY <1>2, <2>3, <3>3 DEF ChangesOf
    <3> QED
      BY <3>1, <3>2, <3>3 DEF Matches
  <2>9. D \in SUBSET Nat /\ E \in SUBSET Nat
    BY DEF ChangesIn, ChangesOf
  <2> HIDE DEF D, E, f
  <2>10. Fits(plan, E, d, l, t)
    BY <2>6, <2>8, <2>9, FitsAlike
  <2> QED
    BY <2>10 DEF E, plan
<1> QED
  BY <1>3, <1>4

(* A plan without some of its bookkeeping and quiet steps.                 *)
OfKinds(plan, ops) == {step \in ToSet(plan) : step.op \in ops}

(* What is kept of a plan, by places.                                      *)
LEMMA OnlyIs ==
  ASSUME NEW S, NEW plan \in Seq(S), NEW ops
  PROVE  /\ OnlyOf(plan, ops) \in Seq(S)
         /\ \E sel : Kept(plan, OfKinds(plan, ops), OnlyOf(plan, ops), sel)
         /\ \A m \in 1 .. Len(plan) : plan[m] \in OfKinds(plan, ops) <=> plan[m].op \in ops
<1>1. OnlyOf(plan, ops) = Keep(plan, OfKinds(plan, ops))
  BY DEF OnlyOf, OfKinds
<1>2. \A m \in 1 .. Len(plan) : plan[m] \in OfKinds(plan, ops) <=> plan[m].op \in ops
  BY Members DEF OfKinds
<1> QED
  BY <1>1, <1>2, KeptPlaces

(* The steps of a plan that name a table and change the DAG or a version.  *)
LEMMA PlanChanging ==
  ASSUME NEW d \in DagState, NEW l \in DagState, NEW order,
         NEW i \in 1 .. Len(BuildPlanInOrder(d, l, order)),
         BuildPlanInOrder(d, l, order)[i].op \in ChangingOps
  PROVE  BuildPlanInOrder(d, l, order)[i] \in ChangingStep
<1> DEFINE plan == BuildPlanInOrder(d, l, order)
<1>1. Framed(plan, d)
  BY PlanFramed
<1> SUFFICES plan[i] \in ChangingStep
  OBVIOUS
<1>3. plan[i].op \in ChangingOps
  OBVIOUS
<1> HIDE DEF plan
<1>2. \/ plan[i] = Do("LockDag") \/ plan[i] = Do("UnlockDag") \/ plan[i] = Do("RecordSnapshot")
      \/ plan[i] \in InnerStep(d)
  BY <1>1 DEF Framed, plan
<1>4. None \notin Table
  BY NullAssumption
<1>5. "CreateStreamTable" \in TableChanges
      /\ ChangingOps = TableChanges \cup {"LockDag", "RecordSnapshot", "UnlockDag"}
  BY DEF ChangingOps, TableChanges
<1>6. ASSUME NEW op \in {"LockDag", "RecordSnapshot", "UnlockDag"}, plan[i] = Do(op)
      PROVE  plan[i] \in ChangingStep
  <2>1. plan[i] \in Step /\ plan[i].op = op /\ plan[i].table = None /\ op \notin TableChanges
    BY <1>6, InnerSteps
  <2> QED
    BY <1>4, <1>5, <2>1 DEF ChangingStep
<1>7. CASE plan[i] \in InnerStep(d)
  <2>1. /\ plan[i] \in Step /\ plan[i].op \notin {"LockDag", "UnlockDag", "RecordSnapshot"}
        /\ plan[i].op = "CreateStreamTable" => plan[i].args \in TableSpec
        /\ plan[i].op \in TableChanges => plan[i].table \in Table
    BY <1>7, InnerSteps
  <2>2. plan[i].op \in TableChanges
    BY <1>3, <1>5, <2>1
  <2>3. plan[i].table \in Table
    BY <2>1, <2>2
  <2> QED
    BY <1>3, <2>1, <2>2, <2>3 DEF ChangingStep
<1> QED
  BY <1>2, <1>6, <1>7

(* What is kept of a plan are changing steps.                              *)
LEMMA OnlyChanging ==
  ASSUME NEW d \in DagState, NEW l \in DagState, NEW order, NEW ops \in SUBSET ChangingOps
  PROVE  /\ OnlyOf(BuildPlanInOrder(d, l, order), ops) \in Seq(ChangingStep)
         /\ \A i \in 1 .. Len(OnlyOf(BuildPlanInOrder(d, l, order), ops)) :
              OnlyOf(BuildPlanInOrder(d, l, order), ops)[i].op \in ops
<1> DEFINE plan == BuildPlanInOrder(d, l, order)
           kept == OnlyOf(plan, ops)
           P == OfKinds(plan, ops)
<1>1. plan \in Seq(RunnableStep)
  BY PlanReaches
<1>2. \A i \in 1 .. Len(plan) : plan[i].op \in ChangingOps => plan[i] \in ChangingStep
  BY PlanChanging
<1> HIDE DEF plan
<1>3. /\ kept \in Seq(RunnableStep) /\ (\E sel : Kept(plan, P, kept, sel))
      /\ \A m \in 1 .. Len(plan) : plan[m] \in P <=> plan[m].op \in ops
  BY <1>1, OnlyIs
<1> HIDE DEF kept, P
<1>4. PICK sel : Kept(plan, P, kept, sel)
  BY <1>3
<1>5. \A i \in 1 .. Len(kept) : /\ sel[i] \in 1 .. Len(plan) /\ kept[i] = plan[sel[i]]
                                /\ plan[sel[i]] \in P
  BY <1>4 DEF Kept
<1>6. \A i \in 1 .. Len(kept) : kept[i].op \in ops /\ kept[i] \in ChangingStep
  BY <1>2, <1>3, <1>5
<1>7. kept \in Seq(ChangingStep)
  BY <1>3, <1>6, SeqDef
<1> QED
  BY <1>6, <1>7 DEF kept, plan

(* What is kept of a plan fits every table.                                *)
LEMMA OnlyFits ==
  ASSUME NEW d \in DagState, NEW l \in DagState, Sortable(d),
         NEW order \in Seq(ConvergenceNodes(d, l)), NEW t \in Table,
         NEW ops \in SUBSET ChangingOps, TableChanges \subseteq ops
  PROVE  FitsTable(OnlyOf(BuildPlanInOrder(d, l, order), ops), d, l, t)
<1> DEFINE plan == BuildPlanInOrder(d, l, order)
           kept == OnlyOf(plan, ops)
           P == OfKinds(plan, ops)
           E == ChangesOf(plan, t)
           F == {i \in 1 .. Len(kept) : kept[i].table = t}
<1>1. plan \in Seq(RunnableStep)
  BY PlanReaches
<1>2. Fits(plan, E, d, l, t)
  BY PlanFits
<1>3. /\ kept \in Seq(ChangingStep)
      /\ \A i \in 1 .. Len(kept) : kept[i].op \in ops
  BY OnlyChanging
<1> HIDE DEF plan
<1>4. /\ (\E sel : Kept(plan, P, kept, sel))
      /\ \A m \in 1 .. Len(plan) : plan[m] \in P <=> plan[m].op \in ops
  BY <1>1, OnlyIs
<1> HIDE DEF kept, P
<1>5. PICK sel : Kept(plan, P, kept, sel)
  BY <1>4
<1>6. \A i \in F : kept[i].op \in TableChanges
  BY <1>3 DEF ChangingStep
<1>7. Matches(plan, E, kept, F, sel)
  <2>1. ASSUME NEW i \in F PROVE sel[i] \in E /\ kept[i] = plan[sel[i]]
    <3>1. sel[i] \in 1 .. Len(plan) /\ kept[i] = plan[sel[i]] /\ kept[i].table = t
      BY <1>5 DEF Kept
    <3>2. kept[i].op \in TableChanges
      BY <1>6
    <3> QED
      BY <3>1, <3>2 DEF ChangesOf
  <2>2. ASSUME NEW m \in E PROVE \E i \in F : sel[i] = m
    <3>1. m \in 1 .. Len(plan) /\ plan[m].op \in TableChanges /\ plan[m].table = t
      BY DEF ChangesOf
    <3>2. plan[m] \in P
      BY <1>4, <3>1
    <3>3. PICK i \in 1 .. Len(kept) : sel[i] = m
      BY <1>5, <3>1, <3>2 DEF Kept
    <3>4. kept[i] = plan[m]
      BY <1>5, <3>3 DEF Kept
    <3> QED
      BY <3>1, <3>3, <3>4
  <2>3. \A i, j \in F : i < j => sel[i] < sel[j]
    BY <1>5 DEF Kept
  <2> HIDE DEF E, F
  <2> QED
    BY <2>1, <2>2, <2>3 DEF Matches
<1>8. E \in SUBSET Nat /\ F \in SUBSET Nat
  BY DEF ChangesOf
<1>9. F = {i \in DOMAIN kept : kept[i].table = t}
  BY <1>3
<1> HIDE DEF E, F
<1>10. Fits(kept, F, d, l, t)
  BY <1>2, <1>7, <1>8, FitsAlike
<1>11. FitsTable(kept, d, l, t)
  BY <1>9, <1>10 DEF Fits, FitsTable, One, Two
<1> QED
  BY <1>11 DEF kept, plan

(* The snapshot and the unlock are kept, in their places.                  *)
LEMMA OnlyEnds ==
  ASSUME NEW d \in DagState, NEW l \in DagState, NEW order
  PROVE  LET kept == OnlyOf(BuildPlanInOrder(d, l, order), ChangingOps) IN
         RecordsSnapshot(kept) /\ UnlocksLast(kept)
<1> DEFINE plan == BuildPlanInOrder(d, l, order)
           kept == OnlyOf(plan, ChangingOps)
           P == OfKinds(plan, ChangingOps)
           n == Len(plan)
<1>1. Framed(plan, d) /\ WellFormed(plan)
  BY PlanFramed, PlanWellFormed
<1>2. plan \in Seq(RunnableStep)
  BY PlanReaches
<1> HIDE DEF plan
<1>3. /\ kept \in Seq(RunnableStep) /\ (\E sel : Kept(plan, P, kept, sel))
      /\ \A m \in 1 .. Len(plan) : plan[m] \in P <=> plan[m].op \in ChangingOps
  BY <1>2, OnlyIs
<1> HIDE DEF kept, P, n
<1>4. PICK sel : Kept(plan, P, kept, sel)
  BY <1>3
<1>5. DOMAIN kept = 1 .. Len(kept) /\ Len(kept) \in Nat
  BY <1>3
<1>6. n \in Nat /\ n >= 3
  BY <1>1 DEF Framed, n
<1>7. RecordsSnapshot(kept)
  <2>1. plan[n - 1] = Do("RecordSnapshot") /\ n - 1 \in 1 .. n
    BY <1>1, <1>6 DEF Framed, n
  <2>2. plan[n - 1].op = "RecordSnapshot" /\ "RecordSnapshot" \in ChangingOps
    BY <2>1 DEF Do, ChangingOps
  <2>3. plan[n - 1] \in P
    BY <1>3, <2>1, <2>2 DEF n
  <2>4. PICK i \in 1 .. Len(kept) : sel[i] = n - 1
    BY <1>4, <2>1, <2>3 DEF Kept, n
  <2>5. kept[i] = plan[n - 1]
    BY <1>4, <2>4 DEF Kept
  <2> QED
    BY <1>5, <2>2, <2>4, <2>5 DEF RecordsSnapshot
<1>8. ASSUME NEW i \in 1 .. Len(kept), kept[i].op = "UnlockDag" PROVE i = Len(kept)
  <2> DEFINE e == Len(kept)
             m == sel[i]
             x == sel[e]
  <2>1. e \in 1 .. e /\ e \in Nat /\ i \in 1 .. e
    BY <1>5
  <2>2. m \in 1 .. n /\ x \in 1 .. n /\ kept[i] = plan[m] /\ (i < e => m < x)
    BY <1>4, <2>1 DEF Kept, n
  <2> HIDE DEF e, m, x
  <2>3. \A j \in 1 .. (n - 1) : plan[j].op # "UnlockDag"
    BY <1>1 DEF WellFormed, n
  <2>4. m = n
    <3>1. m \notin 1 .. (n - 1)
      BY <1>8, <2>2, <2>3
    <3> QED
      BY <1>6, <2>2, <3>1
  <2>5. ~(i < e)
    BY <1>6, <2>2, <2>4
  <2>6. i = e
    BY <2>1, <2>5
  <2> QED
    BY <2>6 DEF e
<1>9. UnlocksLast(kept)
  BY <1>5, <1>8 DEF UnlocksLast
<1> QED
  BY <1>7, <1>9 DEF kept, plan

(* What the commands and the cascades assume of the planner                *)
(* (PlannerAssumption of Commands and of Cascades) holds of every plan of  *)
(* build_plan_with_options for files without a cycle: each table is left   *)
(* alone, created, altered in place, dropped, or dropped and created       *)
(* again, and has the query of its file in the end; a query is altered in  *)
(* place only over the same FROM, WHERE and GROUP BY, however diamonds are *)
(* promoted (plan.rs:779-1083); and a snapshot is recorded before the lock *)
(* is given back, which comes last.                                        *)
THEOREM PlansFit ==
  \A d, l \in DagState : Sortable(d) =>
    LET changing == OnlyOf(BuildPlan(d, l), ChangingOps)
        changes  == OnlyOf(BuildPlan(d, l), TableChanges)
    IN /\ changing \in Seq(ChangingStep)
       /\ RecordsSnapshot(changing) /\ UnlocksLast(changing)
       /\ changes \in Seq(TableChange)
       /\ \A t \in Table : FitsTable(changing, d, l, t) /\ FitsTable(changes, d, l, t)
<1> SUFFICES ASSUME NEW d \in DagState, NEW l \in DagState, Sortable(d)
             PROVE  LET changing == OnlyOf(BuildPlan(d, l), ChangingOps)
                        changes  == OnlyOf(BuildPlan(d, l), TableChanges)
                    IN /\ changing \in Seq(ChangingStep)
                       /\ RecordsSnapshot(changing) /\ UnlocksLast(changing)
                       /\ changes \in Seq(TableChange)
                       /\ \A t \in Table : FitsTable(changing, d, l, t) /\ FitsTable(changes, d, l, t)
  OBVIOUS
<1> DEFINE order == SetToSeq(ConvergenceNodes(d, l))
           plan == BuildPlanInOrder(d, l, order)
           changing == OnlyOf(plan, ChangingOps)
           changes  == OnlyOf(plan, TableChanges)
<1>1. BuildPlan(d, l) = plan
  BY DEF BuildPlan
<1>2. order \in Seq(ConvergenceNodes(d, l))
  <2>1. ConvergenceNodes(d, l) \subseteq Table
    BY DEF ConvergenceNodes, Changed
  <2>2. IsFiniteSet(ConvergenceNodes(d, l))
    BY <2>1, TableIsFinite, FS_Subset
  <2> QED
    BY <2>2, ChosenOrder, OrderLists
<1>3. TableChanges \subseteq ChangingOps
  BY DEF ChangingOps
<1> HIDE DEF order
<1>4. changing \in Seq(ChangingStep) /\ changes \in Seq(ChangingStep)
      /\ \A i \in 1 .. Len(changes) : changes[i].op \in TableChanges
  BY <1>3, OnlyChanging
<1>5. RecordsSnapshot(changing) /\ UnlocksLast(changing)
  BY OnlyEnds
<1>6. \A t \in Table : FitsTable(changing, d, l, t) /\ FitsTable(changes, d, l, t)
  BY <1>2, <1>3, OnlyFits
<1> HIDE DEF changing, changes, plan
<1>7. changes \in Seq(TableChange)
  <2>1. \A i \in 1 .. Len(changes) : changes[i] \in TableChange
    BY <1>4 DEF ChangingStep, TableChange
  <2> QED
    BY <1>4, <2>1, SeqDef
<1> QED
  BY <1>1, <1>4, <1>5, <1>6, <1>7 DEF changing, changes

-----------------------------------------------------------------------------
(* Arrives, of the places `at' of a sequence of steps.                     *)
Alone(step, d, l, t) ==
  \/ /\ step.op = "AlterStreamTable" /\ l[t] # Absent
     /\ Coalesce(l[t], step.args) = d[t]
  \/ step.op = "DropStreamTable" /\ d[t] = Absent

Makes(step, d, t) == step.op = "CreateStreamTable" /\ step.args = d[t]

MakesWay(step) == step.op \in {"DropStreamTable", "PauseImmediate"}

SetsBack(step, d, t) ==
  step.op = "ResumeImmediate" /\ Coalesce(d[t], step.args) = d[t]

(* A step at j beside the create of the table at i.                        *)
Beside(step, j, i, d, t) ==
  \/ j < i /\ MakesWay(step)
  \/ j > i /\ SetsBack(step, d, t)

Brings(s, at, d, l, t) ==
  \/ at = {} /\ l[t] = d[t]
  \/ \E i \in at : at = {i} /\ Alone(s[i], d, l, t)
  \/ \E i \in at :
       /\ Makes(s[i], d, t)
       /\ \A j \in at \ {i} : Beside(s[j], j, i, d, t)

(* What is brought in one sequence is brought in a matching one.           *)
LEMMA BringsAlike ==
  ASSUME NEW s, NEW u, NEW at \in SUBSET Nat, NEW to \in SUBSET Nat, NEW f,
         Matches(s, at, u, to, f), NEW d, NEW l, NEW t, Brings(s, at, d, l, t)
  PROVE  Brings(u, to, d, l, t)
<1>1. \A i, j \in to : (f[i] < f[j] => i < j) /\ (f[i] = f[j] => i = j)
  <2> SUFFICES ASSUME NEW i \in to, NEW j \in to
               PROVE  (f[i] < f[j] => i < j) /\ (f[i] = f[j] => i = j)
    OBVIOUS
  <2> DEFINE m == f[i]
             n == f[j]
  <2>1. /\ m \in Nat /\ n \in Nat /\ i \in Nat /\ j \in Nat
        /\ (i < j => m < n) /\ (j < i => n < m) /\ (i = j => m = n)
    BY DEF Matches
  <2> HIDE DEF m, n
  <2>2. (m < n => i < j) /\ (m = n => i = j)
    BY <2>1
  <2> QED
    BY <2>2 DEF m, n
<1>2. CASE at = {} /\ l[t] = d[t]
  <2>1. to = {}
    BY <1>2 DEF Matches
  <2> QED
    BY <1>2, <2>1 DEF Brings
<1>3. ASSUME NEW m \in at, at = {m}, Alone(s[m], d, l, t) PROVE Brings(u, to, d, l, t)
  <2>1. PICK i \in to : f[i] = m
    BY DEF Matches
  <2>2. \A j \in to : j = i
    BY <1>1, <1>3, <2>1 DEF Matches
  <2>3. to = {i} /\ u[i] = s[m]
    BY <2>1, <2>2 DEF Matches
  <2> QED
    BY <1>3, <2>3 DEF Brings
<1>4. ASSUME NEW m \in at, Makes(s[m], d, t),
             \A n \in at \ {m} : Beside(s[n], n, m, d, t)
      PROVE  Brings(u, to, d, l, t)
  <2>1. PICK i \in to : f[i] = m
    BY DEF Matches
  <2>2. u[i] = s[m]
    BY <2>1 DEF Matches
  <2>3. ASSUME NEW j \in to \ {i}
        PROVE  Beside(u[j], j, i, d, t)
    <3> DEFINE n == f[j]
    <3>1. n \in at \ {m} /\ u[j] = s[n]
      BY <1>1, <2>1, <2>3 DEF Matches
    <3>2. (n < m => j < i) /\ (m < n => i < j) /\ m \in Nat /\ n \in Nat /\ i \in Nat /\ j \in Nat
      BY <1>1, <2>1, <3>1
    <3> HIDE DEF n
    <3>3. Beside(s[n], n, m, d, t)
      BY <1>4, <3>1
    <3> QED
      BY <3>1, <3>2, <3>3 DEF Beside
  <2> QED
    BY <1>4, <2>2, <2>3 DEF Brings
<1> QED
  BY <1>2, <1>3, <1>4 DEF Brings

TouchesIn(s) == {i \in 1 .. Len(s) : s[i].op \in Touching}

(* When a piece leaves its table as the file has it, it brings it.         *)
LEMMA PieceBrings ==
  ASSUME NEW d \in DagState, NEW l \in DagState, NEW t \in Changed(d, l), NEW c,
         Outcome(d, l, t, c) = d[t]
  PROVE  Brings(StepsFor(d, l, t, c), TouchesIn(StepsFor(d, l, t, c)), d, l, t)
<1> DEFINE s == StepsFor(d, l, t, c)
           kind == DeltaKind(d, l, t)
           D == TouchesIn(s)
           w == DoOn("WaitForRefresh", t)
           v == DoOn("ValidateQuery", t)
           p == Pause(t)
           r == Resume(t)
           x == Drop(t)
           y == Create(t, d[t])
           z == DoOn("RecreatePolicy", t)
           b == DoOn("Backfill", t)
           o == DoOn("DetachOutbox", t)
           q == DoOn("ManageWalSlot", t)
           aq == DoWith("AlterStreamTable", t, QueryArgs(d[t]))
           am == DoWith("AlterStreamTable", t, MetadataArgs(d[t], l[t]))
<1> SUFFICES Brings(s, D, d, l, t)
  OBVIOUS
<1>1. /\ \A step \in {w, v, z, b, o, q} : step.op \notin Touching
      /\ \A step \in {x, y, p, r, aq, am} : step.op \in Touching
      /\ MakesWay(x) /\ MakesWay(p) /\ Makes(y, d, t)
      /\ d[t] = Absent => Alone(x, d, l, t)
  BY DEF DoOn, DoWith, Pause, Resume, Drop, Create, Touching, MakesWay, Makes, Alone
<1>2. t \in Table /\ kind # "Unchanged"
  BY DEF Changed
<1>3. D = {i \in 1 .. Len(s) : s[i].op \in Touching}
  BY DEF TouchesIn
<1>4. ASSUME NEW first \in BOOLEAN, s = RebuildSteps(t, d[t], l[t], first), d[t] # Absent,
             Rebuilt(d[t], l[t]) = d[t]
      PROVE  Brings(s, D, d, l, t)
  <2>1. s = IF l[t].refresh = "IMMEDIATE"
            THEN IF first THEN <<v, p, w, x, y, z, b, r>> ELSE <<p, w, v, x, y, z, b, r>>
            ELSE IF first THEN <<v, w, x, y, z, b>> ELSE <<w, v, x, y, z, b>>
    BY <1>4, RebuildIs
  <2>2. l[t].refresh = "IMMEDIATE" => SetsBack(r, d, t)
    <3>1. d[t] \in TableSpec
      BY <1>2, <1>4 DEF DagState
    <3>2. EffectOn(d, d, t, r) = [d[t] EXCEPT !.refresh = "IMMEDIATE"]
      BY <1>2, <3>1, OtherOnTable
    <3>3. r.op = "ResumeImmediate" /\ EffectOn(d, d, t, r) = Coalesce(d[t], r.args)
      BY <1>4 DEF EffectOn, Resume, DoWith
    <3> QED
      BY <1>4, <3>2, <3>3 DEF Rebuilt, SetsBack
  <2> HIDE DEF s, D, w, v, p, r, x, y, z, b, o, q, aq, am
  <2>3. ASSUME s = <<v, p, w, x, y, z, b, r>> \/ s = <<p, w, v, x, y, z, b, r>>,
               SetsBack(r, d, t)
        PROVE  Brings(s, D, d, l, t)
    <3>1. Len(s) = 8 /\ s[1] \in {v, p} /\ s[2] \in {p, w} /\ s[3] \in {w, v} /\ s[4] = x
          /\ s[5] = y /\ s[6] = z /\ s[7] = b /\ s[8] = r
      BY <2>3
    <3> HIDE DEF s
    <3>2. 5 \in D /\ \A j \in D : j \in 1 .. 8 /\ s[j].op \in Touching
      BY <1>1, <1>3, <3>1
    <3>3. ASSUME NEW j \in D \ {5}
          PROVE  Beside(s[j], j, 5, d, t)
      <4>1. j \in {1, 2, 3, 4, 6, 7, 8} /\ s[j].op \in Touching
        BY <3>2
      <4>2. \/ j < 5 /\ s[j] \in {p, x}
            \/ j > 5 /\ s[j] = r
        BY <1>1, <3>1, <4>1
      <4> QED
        BY <1>1, <2>3, <4>2 DEF Beside
    <3>4. Makes(s[5], d, t)
      BY <1>1, <3>1
    <3> QED
      BY <3>2, <3>3, <3>4 DEF Brings
  <2>4. ASSUME s = <<v, w, x, y, z, b>> \/ s = <<w, v, x, y, z, b>>
        PROVE  Brings(s, D, d, l, t)
    <3>1. Len(s) = 6 /\ s[1] \in {v, w} /\ s[2] \in {v, w} /\ s[3] = x /\ s[4] = y /\ s[5] = z /\ s[6] = b
      BY <2>4
    <3>2. 4 \in D /\ \A j \in D : j \in 1 .. 6 /\ s[j].op \in Touching
      BY <1>1, <1>3, <3>1
    <3>3. ASSUME NEW j \in D \ {4}
          PROVE  Beside(s[j], j, 4, d, t)
      <4>1. j \in {1, 2, 3, 5, 6} /\ s[j].op \in Touching
        BY <3>2
      <4>2. j < 4 /\ MakesWay(s[j])
        BY <1>1, <3>1, <4>1
      <4> QED
        BY <4>2 DEF Beside
    <3>4. Makes(s[4], d, t)
      BY <1>1, <3>1
    <3> QED
      BY <3>2, <3>3, <3>4 DEF Brings
  <2>5. \/ l[t].refresh = "IMMEDIATE" /\ s = <<v, p, w, x, y, z, b, r>>
        \/ l[t].refresh = "IMMEDIATE" /\ s = <<p, w, v, x, y, z, b, r>>
        \/ s = <<v, w, x, y, z, b>> \/ s = <<w, v, x, y, z, b>>
    BY <2>1
  <2> QED
    BY <2>2, <2>3, <2>4, <2>5
<1>5. CASE kind = "Create" /\ s = CreateSteps(t, d[t])
  <2>1. s = <<v, y, b>>
    BY <1>5 DEF CreateSteps, Create
  <2> HIDE DEF s, D, w, v, p, r, x, y, z, b, o, q, aq, am
  <2>2. Len(s) = 3 /\ s[1] = v /\ s[2] = y /\ s[3] = b
    BY <2>1
  <2>3. D = {2}
    BY <1>1, <1>3, <2>2
  <2>4. Makes(s[2], d, t)
    BY <1>1, <2>2
  <2> QED
    BY <2>3, <2>4 DEF Brings
<1>6. CASE kind = "Drop" /\ s = DropSteps(t, l[t])
  <2>1. s = CASE l[t].cdc = "outbox" -> <<w, o, x>>
              [] l[t].cdc = "wal" -> <<w, q, x>>
              [] OTHER -> <<w, x>>
    BY <1>6, DropIs
  <2>2. Alone(x, d, l, t)
    BY <1>1, <1>2, <1>6, KindSays
  <2> HIDE DEF s, D, w, v, p, r, x, y, z, b, o, q, aq, am
  <2>3. CASE s = <<w, o, x>> \/ s = <<w, q, x>>
    <3>1. Len(s) = 3 /\ s[1] = w /\ s[2] \in {o, q} /\ s[3] = x
      BY <2>3
    <3>2. D = {3}
      BY <1>1, <1>3, <3>1
    <3> QED
      BY <2>2, <3>1, <3>2 DEF Brings
  <2>4. CASE s = <<w, x>>
    <3>1. Len(s) = 2 /\ s[1] = w /\ s[2] = x
      BY <2>4
    <3>2. D = {2}
      BY <1>1, <1>3, <3>1
    <3> QED
      BY <2>2, <3>1, <3>2 DEF Brings
  <2> QED
    BY <2>1, <2>3, <2>4
<1>7. CASE kind \in MetadataKinds /\ c # "Rebuild" /\ s = Altered(d, l, t)
  <2>1. /\ d[t] \in TableSpec /\ l[t] \in TableSpec /\ l[t] # Absent
        /\ d[t].query = l[t].query
    BY <1>2, <1>7, KindSays DEF DagState
  <2>2. Outcome(d, l, t, c) = [d[t] EXCEPT !.cdc = OrElse(d[t].cdc, l[t].cdc)]
    BY <1>7 DEF Outcome, MetadataKinds
  <2>3. Coalesce(l[t], MetadataArgs(d[t], l[t])) = d[t]
    BY <2>1, <2>2, CoalesceIs
  <2>4. Alone(am, d, l, t)
    BY <2>1, <2>3 DEF Alone, DoWith
  <2>5. s = <<am>>
    BY <1>7 DEF Altered
  <2> HIDE DEF s, D, w, v, p, r, x, y, z, b, o, q, aq, am
  <2>6. Len(s) = 1 /\ s[1] = am
    BY <2>5
  <2>7. D = {1}
    BY <1>1, <1>3, <2>6
  <2> QED
    BY <2>4, <2>6, <2>7 DEF Brings
<1>8. CASE kind = "AlterQuery" /\ c = "InPlace" /\ s = Requeried(d, t)
  <2>1. d[t] \in TableSpec /\ l[t] \in TableSpec /\ l[t] # Absent
    BY <1>2, <1>8, KindSays DEF DagState
  <2>2. Outcome(d, l, t, c) = [l[t] EXCEPT !.query = d[t].query]
    BY <1>8 DEF Outcome
  <2>3. Coalesce(l[t], QueryArgs(d[t])) = d[t]
    BY <2>1, <2>2, CoalesceIs
  <2>4. Alone(aq, d, l, t)
    BY <2>1, <2>3 DEF Alone, DoWith
  <2>5. s = <<v, aq, b>>
    BY <1>8 DEF Requeried
  <2> HIDE DEF s, D, w, v, p, r, x, y, z, b, o, q, aq, am
  <2>6. Len(s) = 3 /\ s[1] = v /\ s[2] = aq /\ s[3] = b
    BY <2>5
  <2>7. D = {2}
    BY <1>1, <1>3, <2>6
  <2> QED
    BY <2>4, <2>6, <2>7 DEF Brings
<1>9. \/ kind = "Create" /\ s = CreateSteps(t, d[t])
      \/ kind = "Drop" /\ s = DropSteps(t, l[t])
      \/ kind \in MetadataKinds /\ c # "Rebuild" /\ s = Altered(d, l, t)
      \/ kind = "AlterQuery" /\ c = "InPlace" /\ s = Requeried(d, t)
      \/ kind = "AlterQuery" /\ c # "InPlace" /\ s = RebuildSteps(t, d[t], l[t], TRUE)
      \/ kind \in MetadataKinds /\ c = "Rebuild" /\ s = RebuildSteps(t, d[t], l[t], FALSE)
  <2>1. \/ kind = "Unchanged" /\ s = <<>>
        \/ kind = "Create" /\ s = CreateSteps(t, d[t])
        \/ kind = "Drop" /\ s = DropSteps(t, l[t])
        \/ kind \in MetadataKinds /\ c # "Rebuild" /\ s = Altered(d, l, t)
        \/ kind = "AlterQuery" /\ c = "InPlace" /\ s = Requeried(d, t)
        \/ /\ kind = "AlterQuery" /\ c # "InPlace"
           /\ s = RebuildSteps(t, d[t], l[t], TRUE)
        \/ /\ kind \in MetadataKinds /\ c = "Rebuild"
           /\ s = RebuildSteps(t, d[t], l[t], FALSE)
    <3>1. t \in Table
      BY <1>2
    <3> HIDE DEF w, v, p, r, x, y, z, b, o, q, aq, am, D
    <3> QED
      BY <3>1, PieceIs
  <2> HIDE DEF kind, s, D
  <2> QED
    BY <1>2, <2>1
<1>10. kind = "AlterQuery" \/ kind \in MetadataKinds => d[t] # Absent
  BY <1>2, KindSays
<1>11. (kind = "AlterQuery" /\ c # "InPlace") \/ (kind \in MetadataKinds /\ c = "Rebuild")
         => Rebuilt(d[t], l[t]) = d[t]
  BY DEF Outcome, MetadataKinds
<1>12. TRUE \in BOOLEAN /\ FALSE \in BOOLEAN
  OBVIOUS
<1> HIDE DEF s, kind, D
<1> QED
  BY <1>4, <1>5, <1>6, <1>7, <1>8, <1>9, <1>10, <1>11, <1>12

(* A table is touched by its piece only, so the plan brings it as well.    *)
LEMMA PlanBrings ==
  ASSUME NEW d \in DagState, NEW l \in DagState, Sortable(d),
         NEW order \in Seq(ConvergenceNodes(d, l)), NEW t \in Table,
         After(BuildPlanInOrder(d, l, order), l)[t] = d[t]
  PROVE  Brings(BuildPlanInOrder(d, l, order), TouchesOf(BuildPlanInOrder(d, l, order), t), d, l, t)
<1> DEFINE plan == BuildPlanInOrder(d, l, order)
           E == TouchesOf(plan, t)
<1>1. plan \in Seq(RunnableStep)
  BY PlanReaches
<1>2. Len(plan) \in Nat /\ DOMAIN plan = 1 .. Len(plan)
  <2> HIDE DEF plan
  <2> QED
    BY <1>1
<1>3. CASE t \notin Changed(d, l)
  <2>1. d[t] = l[t]
    BY <1>3, KindSays DEF Changed
  <2>2. ASSUME NEW i \in E PROVE FALSE
    <3>1. i \in 1 .. Len(plan) /\ plan[i].table = t
      BY <1>2 DEF TouchesOf
    <3>2. plan[i] \notin BookStep
      <4> DEFINE step == plan[i]
      <4>1. step.table = t /\ None \notin Table
        BY <3>1, NullAssumption
      <4> HIDE DEF step
      <4>2. step \notin BookStep
        BY <4>1, BookSteps
      <4> QED
        BY <4>2 DEF step
    <3>3. PICK k \in 1 .. Len(InOrder(d, l)) : StepAt(d, l, plan[i], k)
      BY <3>1, <3>2, StepOfPiece
    <3>4. InOrder(d, l)[k] \in Changed(d, l)
      BY PieceOfTable
    <3> QED
      BY <1>3, <3>1, <3>3, <3>4 DEF StepAt
  <2>3. E = {}
    BY <2>2
  <2> HIDE DEF E, plan
  <2>4. Brings(plan, E, d, l, t)
    BY <2>1, <2>3 DEF Brings
  <2> QED
    BY <2>4 DEF E, plan
<1>4. CASE t \in Changed(d, l)
  <2>1. PICK k \in 1 .. Len(InOrder(d, l)) : InOrder(d, l)[k] = t
    <3>1. t \in ToSet(InOrder(d, l)) /\ InOrder(d, l) \in Seq(Changed(d, l))
      BY <1>4, TablesInOrder
    <3> QED
      BY <3>1, Members
  <2> DEFINE p == Piece(d, l, order, k)
             c == Promoted(d, l, order)[t]
             D == TouchesIn(p)
  <2>2. PICK a, b : Around(d, l, order, k, a, b)
    BY PlanSplits
  <2>3. /\ Len(a) \in Nat /\ Len(p) \in Nat
        /\ \A m \in 1 .. Len(p) : Len(a) + m \in 1 .. Len(plan) /\ plan[Len(a) + m] = p[m]
        /\ \A i \in 1 .. Len(plan) : plan[i].table = t =>
             i - Len(a) \in 1 .. Len(p) /\ plan[i] = p[i - Len(a)]
    BY <2>1, <2>2, PieceInPlan
  <2>4. p = StepsFor(d, l, t, c) /\ p \in Seq(TableStep(d, {t}))
    BY <2>1, PieceOfTable DEF Piece
  <2>5. Outcome(d, l, t, c) = d[t]
    BY <1>4, Applied DEF OutcomeOf
  <2>6. Brings(p, D, d, l, t)
    <3> HIDE DEF c
    <3> QED
      BY <1>4, <2>4, <2>5, PieceBrings
  <2>7. \A m \in 1 .. Len(p) : p[m].table = t
    <3> HIDE DEF p
    <3> QED
      BY <2>4 DEF TableStep
  <2> DEFINE f == [i \in E |-> i - Len(a)]
  <2> HIDE DEF p, plan
  <2>8. Matches(p, D, plan, E, f)
    <3>1. ASSUME NEW i \in E PROVE f[i] \in D /\ plan[i] = p[f[i]]
      BY <1>2, <2>3 DEF TouchesOf, TouchesIn
    <3>2. ASSUME NEW m \in D PROVE \E i \in E : f[i] = m
      <4>1. m \in 1 .. Len(p) /\ p[m].op \in Touching
        BY DEF TouchesIn
      <4> DEFINE i == Len(a) + m
      <4>2. i \in 1 .. Len(plan) /\ plan[i] = p[m] /\ i - Len(a) = m
        BY <2>3, <4>1
      <4>3. i \in E
        BY <1>2, <2>7, <4>1, <4>2 DEF TouchesOf
      <4> HIDE DEF i, E
      <4> QED
        BY <4>2, <4>3
    <3>3. ASSUME NEW i \in E, NEW j \in E, i < j PROVE f[i] < f[j]
      BY <1>2, <2>3, <3>3 DEF TouchesOf
    <3> QED
      BY <3>1, <3>2, <3>3 DEF Matches
  <2>9. D \in SUBSET Nat /\ E \in SUBSET Nat
    BY <1>2 DEF TouchesIn, TouchesOf
  <2> HIDE DEF D, E, f
  <2>10. Brings(plan, E, d, l, t)
    BY <2>6, <2>8, <2>9, BringsAlike
  <2> QED
    BY <2>10 DEF E, plan
<1> QED
  BY <1>3, <1>4

(* What is brought is kept, altered, dropped or built.                     *)
LEMMA BroughtArrives ==
  ASSUME NEW plan, NEW d, NEW l, NEW t, Brings(plan, TouchesOf(plan, t), d, l, t)
  PROVE  \/ Keeps(plan, d, l, t) \/ AltersTo(plan, d, l, t)
         \/ DropsOnly(plan, d, t) \/ Builds(plan, d, t)
<1> DEFINE E == TouchesOf(plan, t)
<1>1. CASE E = {} /\ l[t] = d[t]
  BY <1>1 DEF Keeps
<1>2. ASSUME NEW i \in E, E = {i}, Alone(plan[i], d, l, t)
      PROVE  AltersTo(plan, d, l, t) \/ DropsOnly(plan, d, t)
  BY <1>2 DEF Alone, AltersTo, DropsOnly
<1>3. ASSUME NEW i \in E, Makes(plan[i], d, t),
             \A j \in E \ {i} :
               Beside(plan[j], j, i, d, t)
      PROVE  Builds(plan, d, t)
  BY <1>3 DEF Makes, Beside, MakesWay, SetsBack, Builds
<1> QED
  BY <1>1, <1>2, <1>3 DEF Brings

(* The convergence of resumed runs (CommittedConverges and                 *)
(* SnapshotConverges) rests on PlanArrives: this is what it means for      *)
(* build_plan_with_options.  A plan for files without a cycle arrives      *)
(* whenever its steps, executed once, one after the other and undisturbed, *)
(* leave exactly the tables of the files (plan.rs:753-1091).               *)
THEOREM PlansArrive ==
  \A d, l \in DagState :
    Sortable(d) /\ After(BuildPlan(d, l), l) = d => Arrives(BuildPlan(d, l), d, l)
<1> SUFFICES ASSUME NEW d \in DagState, NEW l \in DagState, Sortable(d),
                    After(BuildPlan(d, l), l) = d
             PROVE  Arrives(BuildPlan(d, l), d, l)
  OBVIOUS
<1> DEFINE order == SetToSeq(ConvergenceNodes(d, l))
           plan == BuildPlanInOrder(d, l, order)
<1>1. BuildPlan(d, l) = plan
  BY DEF BuildPlan
<1>2. order \in Seq(ConvergenceNodes(d, l))
  <2>1. ConvergenceNodes(d, l) \subseteq Table
    BY DEF ConvergenceNodes, Changed
  <2>2. IsFiniteSet(ConvergenceNodes(d, l))
    BY <2>1, TableIsFinite, FS_Subset
  <2> QED
    BY <2>2, ChosenOrder, OrderLists
<1> HIDE DEF order
<1>3. ASSUME NEW t \in Table
      PROVE  \/ Keeps(plan, d, l, t) \/ AltersTo(plan, d, l, t)
             \/ DropsOnly(plan, d, t) \/ Builds(plan, d, t)
  <2>1. Brings(plan, TouchesOf(plan, t), d, l, t)
    BY <1>1, <1>2, PlanBrings
  <2> QED
    BY <2>1, BroughtArrives
<1>4. Framed(plan, d)
  BY PlanFramed
<1>5. plan \in Seq(RunnableStep)
  BY PlanReaches
<1> HIDE DEF plan
<1>6. DOMAIN plan = 1 .. Len(plan)
  BY <1>5
<1>7. ASSUME NEW i \in DOMAIN plan, NEW j \in DOMAIN plan,
             plan[i].op = "RecordSnapshot", plan[j].op \in Touching
      PROVE  j < i
  <2> DEFINE n == Len(plan)
  <2>1. i \in 1 .. n /\ j \in 1 .. n /\ n \in Nat /\ n >= 3
    BY <1>4, <1>6 DEF Framed
  <2>2. /\ Do("LockDag").op = "LockDag" /\ Do("UnlockDag").op = "UnlockDag"
        /\ Do("RecordSnapshot").op = "RecordSnapshot"
    BY InnerSteps
  <2>3. i = n - 1
    <3>1. i # 1 /\ i # n
      BY <1>4, <1>7, <2>2 DEF Framed
    <3>2. plan[i] \notin InnerStep(d)
      BY <1>7, InnerSteps
    <3> QED
      BY <1>4, <2>1, <3>1, <3>2 DEF Framed
  <2>4. j # 1 /\ j # n /\ j # n - 1
    BY <1>4, <1>7, <2>2 DEF Framed, Touching
  <2> QED
    BY <2>1, <2>3, <2>4
<1> QED
  BY <1>1, <1>3, <1>7 DEF Arrives

=============================================================================
