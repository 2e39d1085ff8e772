---------------------------- MODULE CommandProofs ----------------------------
(***************************************************************************)
(* Proofs about Commands, for any number of sessions and projects, any     *)
(* planner of which PlannerAssumption holds, and any combination of faults. *)
(***************************************************************************)
EXTENDS Commands, FiniteSetTheorems, SequenceTheorems, WellFoundedInduction, TLAPS

DestroyOps == {"Drop", "DeleteLocks", "DeleteMigrations", "DeleteVersions",
               "DeleteOwnership", "Report"}

DestroyStep == {step \in [op : DestroyOps, table : Table \cup {None}, args : {NoArgs}] :
                  step.op = "Drop" => step.table \in Table}

Command ==
  [phase : {"planned", "running"}, kind : {"apply", "promote", "rollback", "destroy"},
   project : Project, spec : DagState, goal : Nat \cup {None}, from : Nat \cup {None},
   todo : Seq(ChangingStep \cup DestroyStep), rebuilt : SUBSET Table,
   flagged : BOOLEAN, row : BOOLEAN, new : Nat \cup {None}, undisturbed : BOOLEAN]

DatabaseTyped ==
  /\ live \in DagState
  /\ owner \in [Table -> Project \cup {None}]
  /\ lock \in [Project -> Session \cup {None}]
  /\ hour \in 0 .. Day - 1
  /\ versions \in Seq(VersionRow \cup {Absent})
  /\ migrations \subseteq {v \in DOMAIN versions : versions[v] # Absent}

TypeInv == DatabaseTyped /\ cmd \in [Session -> Command \cup {NoCommand}]

-----------------------------------------------------------------------------
(* What is true of a command c between two steps.                          *)

Remains(todo, op) == \E i \in DOMAIN todo : todo[i].op = op

Before(todo, first, second) ==
  \A i, j \in DOMAIN todo : todo[i].op = first /\ todo[j].op = second => i < j

(* Report is last, the migrations go before the versions, and the tables   *)
(* before their owners.                                                    *)
DestroyOrdered(todo) ==
  /\ \A i \in DOMAIN todo : todo[i].op = "Report" <=> i = Len(todo)
  /\ Before(todo, "DeleteMigrations", "DeleteVersions")
  /\ Before(todo, "Drop", "DeleteOwnership")

(* A destroy has its statements, every other command a plan, or what is    *)
(* left of it, for a DAG of its own project.                               *)
Shaped(c) ==
  /\ c.todo # <<>>
  /\ IF c.kind = "destroy"
     THEN c.phase = "running" /\ c.todo \in Seq(DestroyStep) /\ DestroyOrdered(c.todo)
     ELSE /\ c.todo \in Seq(ChangingStep) /\ UnlocksLast(c.todo)
          /\ c.spec \in Files[c.project]
          /\ c.new = None => RecordsSnapshot(c.todo)

(* A version a command remembers is one of its project's, or was deleted.  *)
Known(v, p) ==
  v # None => v \in DOMAIN versions /\ (versions[v] = Absent \/ versions[v].project = p)

Remembers(c) ==
  /\ Known(c.from, c.project) /\ Known(c.new, c.project)
  /\ c.goal # None =>
       /\ c.goal \in DOMAIN versions
       /\ versions[c.goal] = Absent \/ versions[c.goal].spec = c.spec

KeepsRows(c) ==
  c.kind = "rollback" /\ ~c.flagged =>
    \A i \in DOMAIN c.todo :
      c.todo[i].op = "DropStreamTable" => c.spec[c.todo[i].table] = Absent

(* What is left of an undisturbed plan still fits the tables.              *)
OnCourse(c) ==
  c.kind # "destroy" /\ c.undisturbed =>
    \A t \in Table : FitsTable(c.todo, c.spec, LiveOf(c.project), t)

(* What an undisturbed destroy has deleted is gone, and the tables it is   *)
(* still to drop are its project's.                                        *)
ClearedUpTo(todo, p) ==
  /\ \A i \in DOMAIN todo : todo[i].op = "Drop" => owner[todo[i].table] = p
  /\ ~Remains(todo, "DeleteLocks") => lock[p] = None
  /\ ~Remains(todo, "DeleteMigrations") => migrations \cap VersionsOf(p) = {}
  /\ ~Remains(todo, "DeleteVersions") => VersionsOf(p) = {}
  /\ ~Remains(todo, "DeleteOwnership") => \A t \in Table : owner[t] # p

Cleared(c) == c.kind = "destroy" /\ c.undisturbed => ClearedUpTo(c.todo, c.project)

Sound(c) ==
  Shaped(c) /\ Remembers(c) /\ KeepsRows(c) /\ OnCourse(c) /\ Cleared(c)

CommandInv ==
  /\ TypeInv
  /\ HistoryIsOwn
  /\ \A s \in Session : Busy(s) => Sound(cmd[s])

-----------------------------------------------------------------------------
(* Facts about numbers and sequences.                                      *)

LEMMA GreatestExists ==
  ASSUME NEW n \in Nat, NEW S \in SUBSET (1 .. n), S # {}
  PROVE  \E v \in S : \A w \in S : w <= v
<1> DEFINE above == {v .. n : v \in S}
           order == StrictSubsetOrdering(Nat)
<1>1. IsWellFoundedOn(order, FiniteSubsetsOf(Nat))
  BY FS_StrictSubsetOrderingWellFounded
<1>2. above \subseteq FiniteSubsetsOf(Nat) /\ above # {}
  <2>1. \A v \in S : v \in Int /\ n \in Int /\ (v .. n) \subseteq Nat
    OBVIOUS
  <2>2. \A v \in S : IsFiniteSet(v .. n)
    BY <2>1, FS_Interval
  <2>3. QED
    BY <2>1, <2>2 DEF FiniteSubsetsOf
<1>3. PICK x \in above : \A y \in above : ~(<<y, x>> \in order)
  <2> HIDE DEF above, order
  <2>1. QED
    BY <1>1, <1>2, WFMin
<1>4. PICK v \in S : x = v .. n
  OBVIOUS
<1>5. ASSUME NEW w \in S, w > v  PROVE FALSE
  <2>1. (w .. n) \subseteq (v .. n) /\ v \in v .. n /\ v \notin w .. n
    BY <1>5
  <2>2. <<w .. n, v .. n>> \in order
    BY <2>1 DEF StrictSubsetOrdering
  <2>3. QED
    BY <1>3, <1>4, <2>2
<1>6. QED
  BY <1>5

LEMMA RestFacts ==
  ASSUME NEW S, NEW todo \in Seq(S), todo # <<>>
  PROVE  /\ Len(todo) \in Nat \ {0} /\ DOMAIN todo = 1 .. Len(todo)
         /\ Head(todo) = todo[1] /\ todo[1] \in S
         /\ Tail(todo) \in Seq(S)
         /\ DOMAIN Tail(todo) = 1 .. Len(todo) - 1
         /\ Len(Tail(todo)) = Len(todo) - 1
         /\ \A i \in DOMAIN Tail(todo) : Tail(todo)[i] = todo[i + 1] /\ i + 1 \in DOMAIN todo
         /\ Tail(todo) = <<>> <=> Len(todo) = 1
<1>1. Len(todo) \in Nat \ {0} /\ DOMAIN todo = 1 .. Len(todo)
  BY LenProperties, EmptySeq
<1>2. Head(todo) = todo[1] /\ todo[1] \in S
  BY <1>1, HeadTailProperties, ElementOfSeq
<1>3. /\ Tail(todo) \in Seq(S) /\ Len(Tail(todo)) = Len(todo) - 1
      /\ \A i \in 1 .. Len(Tail(todo)) : Tail(todo)[i] = todo[i + 1]
  BY HeadTailProperties
<1>4. DOMAIN Tail(todo) = 1 .. Len(todo) - 1
  BY <1>3, LenProperties
<1>5. Tail(todo) = <<>> <=> Len(todo) = 1
  <2>1. CASE Tail(todo) = <<>>
    BY <1>1, <1>3, <2>1, EmptySeq
  <2>2. CASE Tail(todo) # <<>>
    <3>1. Len(Tail(todo)) \in Nat \ {0}
      BY <1>3, <2>2, EmptySeq
    <3>2. QED
      BY <1>1, <1>3, <2>2, <3>1
  <2>3. QED
    BY <2>1, <2>2
<1>6. QED
  BY <1>1, <1>2, <1>3, <1>4, <1>5

LEMMA RestOrdered ==
  ASSUME NEW S, NEW todo \in Seq(S), todo # <<>>, DestroyOrdered(todo)
  PROVE  DestroyOrdered(Tail(todo))
<1> DEFINE rest == Tail(todo)
<1>1. /\ Len(todo) \in Nat /\ Len(rest) = Len(todo) - 1 /\ DOMAIN rest = 1 .. Len(todo) - 1
      /\ \A i \in DOMAIN rest : rest[i] = todo[i + 1] /\ i + 1 \in DOMAIN todo
  BY RestFacts
<1> HIDE DEF rest
<1>2. \A i \in DOMAIN rest : rest[i].op = "Report" <=> i = Len(rest)
  BY <1>1 DEF DestroyOrdered
<1>3. ASSUME NEW first, NEW second, Before(todo, first, second)
      PROVE  Before(rest, first, second)
  <2> SUFFICES ASSUME NEW i \in DOMAIN rest, NEW j \in DOMAIN rest,
                      rest[i].op = first, rest[j].op = second
               PROVE  i < j
    BY DEF Before
  <2>1. i + 1 < j + 1
    BY <1>1, <1>3 DEF Before
  <2>2. QED
    BY <1>1, <2>1
<1>4. QED
  BY <1>2, <1>3 DEF DestroyOrdered, rest

(* Only its own row of the live state matters to a table's steps.          *)
LEMMA FitsSame ==
  ASSUME NEW plan, NEW desired, NEW old, NEW new, NEW t,
         FitsTable(plan, desired, old, t), new[t] = old[t]
  PROVE  FitsTable(plan, desired, new, t)
BY DEF FitsTable, SameQuery, Alters

(* A step about another table leaves the rest of this one's.               *)
LEMMA FitsRest ==
  ASSUME NEW plan \in Seq(ChangingStep), plan # <<>>, NEW desired, NEW current, NEW t,
         FitsTable(plan, desired, current, t), Head(plan).table # t
  PROVE  FitsTable(Tail(plan), desired, current, t)
<1> DEFINE steps == {i \in DOMAIN plan : plan[i].table = t}
           rest  == {i \in DOMAIN Tail(plan) : Tail(plan)[i].table = t}
<1>1. /\ DOMAIN plan = 1 .. Len(plan) /\ Len(plan) \in Nat \ {0}
      /\ DOMAIN Tail(plan) = 1 .. Len(plan) - 1
      /\ \A i \in DOMAIN Tail(plan) : Tail(plan)[i] = plan[i + 1]
      /\ Head(plan) = plan[1]
  BY RestFacts
<1>2. \A i \in steps : i \in Nat /\ i > 1 /\ i - 1 \in rest /\ Tail(plan)[i - 1] = plan[i]
  BY <1>1
<1>3. \A i \in rest : i \in Nat /\ i + 1 \in steps
  BY <1>1
<1>4. CASE steps = {} /\ SameQuery(desired, current, t)
  <2>1. rest = {}
    BY <1>3, <1>4
  <2>2. QED
    BY <1>4, <2>1 DEF FitsTable
<1>5. ASSUME NEW i \in steps, steps = {i}, desired[t] # current[t],
             \/ Creates(plan[i], desired, t)
             \/ Alters(plan[i], desired, current, t)
             \/ plan[i].op = "DropStreamTable" /\ desired[t] = Absent
      PROVE  FitsTable(Tail(plan), desired, current, t)
  <2>1. i - 1 \in rest /\ Tail(plan)[i - 1] = plan[i]
    BY <1>2
  <2>2. rest = {i - 1}
    BY <1>2, <1>3, <1>5
  <2>3. QED
    BY <1>5, <2>1, <2>2 DEF FitsTable
<1>6. ASSUME NEW i \in steps, NEW j \in steps, i < j, steps = {i, j},
             desired[t] # current[t],
             plan[i].op = "DropStreamTable", Creates(plan[j], desired, t)
      PROVE  FitsTable(Tail(plan), desired, current, t)
  <2>1. /\ i - 1 \in rest /\ Tail(plan)[i - 1] = plan[i]
        /\ j - 1 \in rest /\ Tail(plan)[j - 1] = plan[j] /\ i - 1 < j - 1
    BY <1>2, <1>6
  <2>2. rest = {i - 1, j - 1}
    <3>1. steps = {i, j}
      BY <1>6
    <3> QED
      BY <1>2, <1>3, <3>1
  <2>3. QED
    BY <1>6, <2>1, <2>2 DEF FitsTable
<1>7. QED
  BY <1>4, <1>5, <1>6 DEF FitsTable

(* A table's own step brings it to what the rest of its steps expect.      *)
LEMMA FitsStep ==
  ASSUME NEW plan \in Seq(ChangingStep), plan # <<>>, NEW desired \in DagState,
         NEW old \in DagState, NEW new, NEW t \in Table,
         FitsTable(plan, desired, old, t), Head(plan).table = t,
         Head(plan).op = "CreateStreamTable" => new[t] = Head(plan).args,
         Head(plan).op = "DropStreamTable" => new[t] = Absent,
         Head(plan).op = "AlterStreamTable" /\ old[t] # Absent =>
           new[t] = Coalesce(old[t], Head(plan).args)
  PROVE  FitsTable(Tail(plan), desired, new, t)
<1> DEFINE steps == {i \in DOMAIN plan : plan[i].table = t}
           rest  == {i \in DOMAIN Tail(plan) : Tail(plan)[i].table = t}
<1>1. /\ DOMAIN plan = 1 .. Len(plan) /\ Len(plan) \in Nat \ {0}
      /\ DOMAIN Tail(plan) = 1 .. Len(plan) - 1
      /\ \A i \in DOMAIN Tail(plan) : Tail(plan)[i] = plan[i + 1]
      /\ Head(plan) = plan[1] /\ plan[1] \in ChangingStep
  BY RestFacts
<1>2. 1 \in steps
  BY <1>1
<1>3. \A i \in steps : i \in Nat /\ (i # 1 => i - 1 \in rest /\ Tail(plan)[i - 1] = plan[i])
  BY <1>1
<1>4. \A i \in rest : i \in Nat /\ i + 1 \in steps /\ i + 1 # 1
  BY <1>1
<1>5. ASSUME NEW i \in steps, steps = {i},
             \/ Creates(plan[i], desired, t)
             \/ Alters(plan[i], desired, old, t)
             \/ plan[i].op = "DropStreamTable" /\ desired[t] = Absent
      PROVE  FitsTable(Tail(plan), desired, new, t)
  <2>1. i = 1 /\ rest = {}
    BY <1>2, <1>4, <1>5
  <2>2. CASE Creates(plan[1], desired, t)
    <3>1. SameQuery(desired, new, t)
      BY <1>1, <2>2 DEF Creates, SameQuery
    <3>2. QED
      BY <2>1, <3>1 DEF FitsTable
  <2>3. CASE Alters(plan[1], desired, old, t)
    <3>1. new[t] = Coalesce(old[t], plan[1].args) /\ old[t] # Absent /\ desired[t] # Absent
      BY <1>1, <2>3 DEF Alters
    <3>2. old[t] \in TableSpec /\ plan[1].args \in AlterArgs
      BY <1>1, <3>1 DEF DagState, ChangingStep, Step
    <3>3. new[t] \in TableSpec
      BY <3>1, <3>2 DEF Coalesce, OrElse, TableSpec, AlterArgs
    <3>4. new[t].query = desired[t].query
      BY <2>3, <3>1 DEF Alters, Coalesce
    <3>5. SameQuery(desired, new, t)
      BY <3>1, <3>3, <3>4, NothingAssumption DEF SameQuery
    <3>6. QED
      BY <2>1, <3>5 DEF FitsTable
  <2>4. CASE plan[1].op = "DropStreamTable" /\ desired[t] = Absent
    <3>1. SameQuery(desired, new, t)
      BY <1>1, <2>4 DEF SameQuery
    <3>2. QED
      BY <2>1, <3>1 DEF FitsTable
  <2>5. QED
    BY <1>5, <2>1, <2>2, <2>3, <2>4
<1>6. ASSUME NEW i \in steps, NEW j \in steps, i < j, steps = {i, j},
             plan[i].op = "DropStreamTable", Creates(plan[j], desired, t)
      PROVE  FitsTable(Tail(plan), desired, new, t)
  <2>1. \A k \in steps : k >= 1
    BY <1>1
  <2>2. i = 1
    BY <1>2, <1>3, <1>6, <2>1
  <2>3. j - 1 \in rest /\ Tail(plan)[j - 1] = plan[j]
    BY <1>3, <1>6, <2>2
  <2>4. rest = {j - 1}
    BY <1>3, <1>4, <1>6, <2>2, <2>3
  <2>5. new[t] = Absent /\ desired[t] # Absent
    BY <1>1, <1>6, <2>2 DEF Creates
  <2>6. QED
    BY <1>6, <2>3, <2>4, <2>5 DEF FitsTable
<1>7. QED
  BY <1>2, <1>5, <1>6 DEF FitsTable

-----------------------------------------------------------------------------
(* The commands in their sessions.                                         *)

LEMMA InACommand ==
  ASSUME TypeInv, NEW s \in Session
  PROVE  /\ Busy(s) <=> cmd[s] \in Command
         /\ cmd[s].phase \in {"planned", "running"} <=> Busy(s)
         /\ ~Busy(s) <=> cmd[s] = NoCommand
BY DEF TypeInv, Busy, NoCommand, Command

LEMMA AtOp ==
  ASSUME CommandInv, NEW s \in Session, NEW op, At(s, op)
  PROVE  /\ Busy(s) /\ cmd[s] \in Command /\ cmd[s].phase = "running"
         /\ Sound(cmd[s]) /\ cmd[s].todo # <<>>
         /\ Now(s) = cmd[s].todo[1] /\ Now(s).op = op
         /\ Proj(s) \in Project
         /\ op \in ChangingOps => cmd[s].kind # "destroy"
         /\ op \in DestroyOps => cmd[s].kind = "destroy"
         /\ cmd[s].kind # "destroy" => Now(s) \in ChangingStep
         /\ cmd[s].kind = "destroy" => Now(s) \in DestroyStep
<1>1. cmd[s].phase = "running" /\ Now(s).op = op
  BY DEF At
<1>2. Busy(s) /\ cmd[s] \in Command /\ Sound(cmd[s])
  BY <1>1, InACommand DEF CommandInv
<1>3. cmd[s].todo # <<>>
  BY <1>2 DEF Sound, Shaped
<1>4. cmd[s].todo \in Seq(ChangingStep \cup DestroyStep)
  BY <1>2 DEF Command
<1>5. Now(s) = cmd[s].todo[1]
  BY <1>3, <1>4, RestFacts DEF Now
<1>6. cmd[s].kind # "destroy" => Now(s) \in ChangingStep
  <2>1. cmd[s].kind # "destroy" => cmd[s].todo \in Seq(ChangingStep)
    BY <1>2 DEF Sound, Shaped
  <2>2. QED
    BY <1>3, <1>5, <2>1, RestFacts
<1>7. cmd[s].kind = "destroy" => Now(s) \in DestroyStep
  <2>1. cmd[s].kind = "destroy" => cmd[s].todo \in Seq(DestroyStep)
    BY <1>2 DEF Sound, Shaped
  <2>2. QED
    BY <1>3, <1>5, <2>1, RestFacts
<1>8. /\ op \in ChangingOps => cmd[s].kind # "destroy"
      /\ op \in DestroyOps => cmd[s].kind = "destroy"
  BY <1>1, <1>6, <1>7 DEF ChangingStep, DestroyStep, ChangingOps, TableChanges, DestroyOps
<1>9. Proj(s) \in Project
  BY <1>2 DEF Proj, Command
<1>10. QED
  BY <1>1, <1>2, <1>3, <1>5, <1>6, <1>7, <1>8, <1>9

(* A command that goes on with the rest of its steps is still typed.       *)
LEMMA RestTyped ==
  ASSUME TypeInv, NEW s \in Session, cmd[s] \in Command, cmd[s].todo # <<>>
  PROVE  /\ Rest(s) \in Command /\ Rest(s).todo = Tail(cmd[s].todo)
         /\ Rest(s).project = Proj(s)
<1>1. Tail(cmd[s].todo) \in Seq(ChangingStep \cup DestroyStep)
  BY RestFacts DEF Command
<1>2. QED
  BY <1>1 DEF Rest, Command, Proj

(* What Changes leaves of the other commands.                              *)
SameCommand(u) ==
  /\ Busy(u)' <=> Busy(u)
  /\ Busy(u) =>
       /\ cmd[u].phase = cmd'[u].phase /\ cmd[u].kind = cmd'[u].kind
       /\ cmd[u].project = cmd'[u].project /\ cmd[u].spec = cmd'[u].spec
       /\ cmd[u].goal = cmd'[u].goal /\ cmd[u].from = cmd'[u].from
       /\ cmd[u].todo = cmd'[u].todo /\ cmd[u].flagged = cmd'[u].flagged
       /\ cmd[u].new = cmd'[u].new
       /\ cmd'[u].undisturbed => cmd[u].undisturbed

LEMMA ChangesCommands ==
  ASSUME TypeInv, NEW s \in Session, NEW tables, NEW c \in Command, Changes(s, tables, c)
  PROVE  /\ cmd' \in [Session -> Command \cup {NoCommand}]
         /\ cmd'[s] = IF c.todo = <<>> THEN NoCommand ELSE c
         /\ \A u \in Session \ {s} :
              /\ SameCommand(u)
              /\ Busy(u) => cmd'[u].undisturbed = Undisturbed(u, s, tables)
<1> DEFINE next(u) == CASE u = s -> IF c.todo = <<>> THEN NoCommand ELSE c
                        [] u # s /\ ~Busy(u) -> NoCommand
                        [] u # s /\ Busy(u) ->
                             [cmd[u] EXCEPT !.undisturbed = Undisturbed(u, s, tables)]
<1>1. cmd' = [u \in Session |-> next(u)]
  BY DEF Changes
<1>2. next(s) = IF c.todo = <<>> THEN NoCommand ELSE c
  OBVIOUS
<1>3. ASSUME NEW u \in Session \ {s}, ~Busy(u)  PROVE next(u) = NoCommand
  BY <1>3
<1>4. ASSUME NEW u \in Session \ {s}, Busy(u)
      PROVE  /\ next(u) = [cmd[u] EXCEPT !.undisturbed = Undisturbed(u, s, tables)]
             /\ cmd[u] \in Command
  BY <1>4, InACommand
<1>5. ASSUME NEW u \in Session \ {s}, Busy(u)
      PROVE  /\ next(u) \in Command
             /\ next(u).undisturbed = Undisturbed(u, s, tables)
             /\ next(u).undisturbed => cmd[u].undisturbed
             /\ cmd[u].phase = next(u).phase /\ cmd[u].kind = next(u).kind
             /\ cmd[u].project = next(u).project /\ cmd[u].spec = next(u).spec
             /\ cmd[u].goal = next(u).goal /\ cmd[u].from = next(u).from
             /\ cmd[u].todo = next(u).todo /\ cmd[u].flagged = next(u).flagged
             /\ cmd[u].new = next(u).new
  <2>1. Undisturbed(u, s, tables) \in BOOLEAN
    BY DEF Undisturbed
  <2>2. Undisturbed(u, s, tables) => cmd[u].undisturbed
    BY DEF Undisturbed
  <2>3. QED
    BY <1>4, <1>5, <2>1, <2>2 DEF Command
<1> HIDE DEF next
<1>6. \A u \in Session : next(u) \in Command \cup {NoCommand}
  BY <1>2, <1>3, <1>5
<1>7. cmd' \in [Session -> Command \cup {NoCommand}]
  BY <1>1, <1>6
<1>8. NoCommand \notin Command
  BY DEF NoCommand, Command
<1>9. ASSUME NEW u \in Session \ {s}
      PROVE  SameCommand(u) /\ (Busy(u) => cmd'[u].undisturbed = Undisturbed(u, s, tables))
  <2>1. cmd'[u] = next(u)
    BY <1>1
  <2>2. CASE ~Busy(u)
    BY <1>3, <2>1, <2>2 DEF SameCommand, Busy
  <2>3. CASE Busy(u)
    <3>1. Busy(u)'
      BY <1>5, <1>8, <2>1, <2>3 DEF Busy
    <3>2. QED
      BY <1>5, <2>1, <2>3, <3>1 DEF SameCommand
  <2>4. QED
    BY <2>2, <2>3
<1>10. QED
  BY <1>1, <1>2, <1>7, <1>9

-----------------------------------------------------------------------------
(* What a step must leave alone for another command to stay sound.         *)

VersionsKept ==
  \A v \in DOMAIN versions :
    /\ v \in DOMAIN versions'
    /\ \/ versions'[v] = Absent
       \/ /\ versions[v] # Absent
          /\ versions'[v].project = versions[v].project
          /\ versions'[v].spec = versions[v].spec

StillCleared(p) ==
  /\ lock[p] = None => lock'[p] = None
  /\ migrations \cap VersionsOf(p) = {} => migrations' \cap VersionsOf(p)' = {}
  /\ VersionsOf(p) = {} => VersionsOf(p)' = {}
  /\ \A t \in Table : owner[t] = p <=> owner'[t] = p

LEMMA OtherSound ==
  ASSUME NEW u \in Session, Busy(u), Sound(cmd[u]), SameCommand(u), VersionsKept,
         NEW p \in Project, Proj(u) = p,
         cmd'[u].undisturbed /\ cmd[u].kind # "destroy" =>
           \A t \in Table : LiveOf(p)'[t] = LiveOf(p)[t],
         cmd'[u].undisturbed /\ cmd[u].kind = "destroy" => StillCleared(p),
         cmd[u].kind = "destroy" => cmd[u].todo \in Seq(DestroyStep)
  PROVE  Sound(cmd[u])'
<1> DEFINE c == cmd[u]
           d == cmd'[u]
<1>1. /\ d.phase = c.phase /\ d.kind = c.kind /\ d.project = c.project /\ d.spec = c.spec
      /\ d.goal = c.goal /\ d.from = c.from /\ d.todo = c.todo /\ d.flagged = c.flagged
      /\ d.new = c.new
      /\ d.undisturbed => c.undisturbed
  BY DEF SameCommand
<1>2. Shaped(cmd[u])'
  BY <1>1 DEF Sound, Shaped
<1>3. Remembers(cmd[u])'
  BY <1>1 DEF Sound, Remembers, Known, VersionsKept
<1>4. KeepsRows(cmd[u])'
  BY <1>1 DEF Sound, KeepsRows
<1>5. OnCourse(cmd[u])'
  <2> DEFINE now == [x \in Table |-> IF owner'[x] = p THEN live'[x] ELSE Absent]
  <2>1. ASSUME d.kind # "destroy", d.undisturbed, NEW t \in Table
        PROVE  FitsTable(c.todo, c.spec, now, t)
    <3>1. FitsTable(c.todo, c.spec, LiveOf(p), t)
      BY <1>1, <2>1 DEF Sound, OnCourse, Proj
    <3>2. now[t] = LiveOf(p)[t]
      BY <1>1, <2>1 DEF LiveOf
    <3> HIDE DEF now
    <3>3. QED
      BY <3>1, <3>2, FitsSame
  <2>2. d.project = p
    BY <1>1 DEF Proj
  <2>3. QED
    BY <1>1, <2>1, <2>2 DEF OnCourse, LiveOf
<1>6. Cleared(cmd[u])'
  <2> SUFFICES ASSUME d.kind = "destroy", d.undisturbed  PROVE Cleared(cmd[u])'
    BY DEF Cleared
  <2>1. StillCleared(p) /\ ClearedUpTo(c.todo, p)
    BY <1>1 DEF Sound, Proj, Cleared
  <2>2. \A i \in DOMAIN c.todo : c.todo[i].op = "Drop" => c.todo[i].table \in Table
    <3>1. c.todo \in Seq(DestroyStep)
      BY <1>1
    <3>2. \A i \in DOMAIN c.todo : c.todo[i] \in DestroyStep
      BY <3>1, LenProperties, ElementOfSeq
    <3>3. QED
      BY <3>2 DEF DestroyStep
  <2>3. d.todo = c.todo /\ d.project = p
    BY <1>1 DEF Proj
  <2>4. QED
    BY <2>1, <2>2, <2>3 DEF Cleared, ClearedUpTo, StillCleared, Remains, VersionsOf
<1>7. QED
  BY <1>2, <1>3, <1>4, <1>5, <1>6 DEF Sound

(* A step of s on these tables and on the rows of its own project leaves   *)
(* every other command sound: those it interferes with are disturbed.      *)
LEMMA ChangesOthers ==
  ASSUME CommandInv, NEW s \in Session, NEW p \in Project, Proj(s) = p,
         NEW tables \in SUBSET Table, NEW c \in Command, Changes(s, tables, c),
         VersionsKept,
         \A t \in Table \ tables : live'[t] = live[t] /\ owner'[t] = owner[t],
         \A t \in tables : owner'[t] \in {owner[t], p, None},
         \A r \in Project \ {p} :
           /\ lock'[r] = lock[r] /\ VersionsOf(r)' = VersionsOf(r)
           /\ migrations' \cap VersionsOf(r) \subseteq migrations
  PROVE  \A u \in Session \ {s} : Busy(u)' => Sound(cmd[u])'
<1> SUFFICES ASSUME NEW u \in Session \ {s}, Busy(u)'  PROVE Sound(cmd[u])'
  OBVIOUS
<1>1. SameCommand(u) /\ (Busy(u) => cmd'[u].undisturbed = Undisturbed(u, s, tables))
  BY ChangesCommands DEF CommandInv
<1>2. Busy(u) /\ Sound(cmd[u]) /\ cmd[u] \in Command
  BY <1>1, InACommand DEF SameCommand, CommandInv
<1>3. PICK r \in Project : Proj(u) = r
  BY <1>2 DEF Proj, Command
<1>4. cmd[u].kind = "destroy" => cmd[u].todo \in Seq(DestroyStep)
  BY <1>2 DEF Sound, Shaped
<1>5. ASSUME cmd'[u].undisturbed
      PROVE  /\ \A t \in Table : owner[t] = r <=> owner'[t] = r
             /\ \A t \in Table : owner[t] = r => live'[t] = live[t]
             /\ r = p => cmd[u].kind # "destroy"
  <2>1. /\ tables \cap About(u) = {}
        /\ r = p => tables = {} /\ cmd[u].kind # "destroy"
    BY <1>1, <1>2, <1>3, <1>5 DEF Undisturbed
  <2>2. \A t \in tables : owner[t] # r
    BY <1>3, <2>1 DEF About
  <2>3. \A t \in tables : owner'[t] # r
    <3>1. r # None
      BY NothingAssumption
    <3>2. QED
      BY <2>1, <2>2, <3>1
  <2>4. QED
    BY <2>1, <2>2, <2>3
<1>6. cmd'[u].undisturbed /\ cmd[u].kind # "destroy" =>
        \A t \in Table : LiveOf(r)'[t] = LiveOf(r)[t]
  BY <1>5 DEF LiveOf
<1>7. cmd'[u].undisturbed /\ cmd[u].kind = "destroy" => StillCleared(r)
  BY <1>5 DEF StillCleared
<1>8. QED
  BY <1>1, <1>2, <1>3, <1>4, <1>6, <1>7, OtherSound

(* A command that has done its first step remains sound, if its tables and *)
(* rows are what that step leaves.                                         *)
LEMMA OwnSound ==
  ASSUME CommandInv, NEW s \in Session, Busy(s), cmd[s].phase = "running",
         NEW p \in Project, Proj(s) = p, VersionsKept,
         NEW c, cmd'[s] = c, c.todo # <<>>, c.todo = Tail(cmd[s].todo),
         c.phase = "running", c.kind = cmd[s].kind, c.project = p, c.spec = cmd[s].spec,
         c.goal = cmd[s].goal, c.from = cmd[s].from, c.flagged = cmd[s].flagged,
         c.undisturbed => cmd[s].undisturbed,
         \/ c.new = cmd[s].new /\ Now(s).op # "RecordSnapshot"
         \/ c.new # None /\ c.new \in DOMAIN versions' /\ versions'[c.new].project = p,
         c.kind # "destroy" /\ c.undisturbed =>
           \A t \in Table : FitsTable(c.todo, c.spec, LiveOf(p)', t),
         c.kind = "destroy" /\ c.undisturbed => ClearedUpTo(c.todo, p)'
  PROVE  Sound(cmd[s])'
<1> DEFINE b == cmd[s]
<1>1. b \in Command /\ Sound(b)
  BY InACommand DEF CommandInv
<1>2. b.todo # <<>> /\ b.todo \in Seq(ChangingStep \cup DestroyStep)
  BY <1>1 DEF Sound, Shaped, Command
<1>3. /\ DOMAIN b.todo = 1 .. Len(b.todo) /\ Len(b.todo) \in Nat \ {0}
      /\ DOMAIN c.todo = 1 .. Len(b.todo) - 1 /\ Len(c.todo) = Len(b.todo) - 1
      /\ \A i \in DOMAIN c.todo : c.todo[i] = b.todo[i + 1] /\ i + 1 \in DOMAIN b.todo
      /\ Now(s) = b.todo[1]
  BY <1>2, RestFacts DEF Now
<1>4. Shaped(c)
  <2>1. CASE b.kind = "destroy"
    <3>1. b.todo \in Seq(DestroyStep) /\ DestroyOrdered(b.todo)
      BY <1>1, <2>1 DEF Sound, Shaped
    <3>2. c.todo \in Seq(DestroyStep)
      BY <1>2, <3>1, RestFacts
    <3>3. DestroyOrdered(c.todo)
      BY <1>2, <3>1, RestOrdered
    <3>4. QED
      BY <2>1, <3>2, <3>3 DEF Shaped
  <2>2. CASE b.kind # "destroy"
    <3>1. /\ b.todo \in Seq(ChangingStep) /\ UnlocksLast(b.todo) /\ b.spec \in Files[b.project]
          /\ b.new = None => RecordsSnapshot(b.todo)
      BY <1>1, <2>2 DEF Sound, Shaped
    <3>2. c.todo \in Seq(ChangingStep)
      BY <1>2, <3>1, RestFacts
    <3>3. UnlocksLast(c.todo)
      BY <1>3, <3>1 DEF UnlocksLast
    <3>4. c.new = None => RecordsSnapshot(c.todo)
      <4> SUFFICES ASSUME c.new = None  PROVE RecordsSnapshot(c.todo)
        OBVIOUS
      <4>1. PICK i \in DOMAIN b.todo : b.todo[i].op = "RecordSnapshot"
        BY <3>1 DEF RecordsSnapshot
      <4>2. i # 1
        BY <1>3, <4>1
      <4>3. i - 1 \in DOMAIN c.todo /\ c.todo[i - 1] = b.todo[i]
        BY <1>3, <4>2
      <4>4. QED
        BY <4>1, <4>3 DEF RecordsSnapshot
    <3>5. QED
      BY <2>2, <3>1, <3>2, <3>3, <3>4 DEF Shaped, Proj
  <2>3. QED
    BY <2>1, <2>2
<1>5. Remembers(cmd[s])'
  <2>1. Known(b.from, p) /\ Known(b.new, p)
    BY <1>1 DEF Sound, Remembers, Proj
  <2>2. \A v : Known(v, p) => Known(v, p)'
    BY DEF Known, VersionsKept
  <2>3. Known(c.new, p)'
    BY <2>1, <2>2 DEF Known
  <2>4. c.goal # None =>
          c.goal \in DOMAIN versions' /\ (versions'[c.goal] = Absent \/ versions'[c.goal].spec = c.spec)
    BY <1>1 DEF Sound, Remembers, VersionsKept
  <2>5. QED
    BY <2>1, <2>2, <2>3, <2>4 DEF Remembers, Known
<1>6. KeepsRows(c)
  BY <1>1, <1>3 DEF Sound, KeepsRows
<1>7. OnCourse(cmd[s])'
  BY DEF OnCourse, LiveOf
<1>8. Cleared(cmd[s])'
  BY DEF Cleared, ClearedUpTo, VersionsOf
<1>9. QED
  BY <1>4, <1>5, <1>6, <1>7, <1>8 DEF Sound, Shaped, KeepsRows

(* What a step of s does to its own command, c being what is left of it.   *)
GoesOn(s, c) ==
  /\ c.todo = Tail(cmd[s].todo) /\ c.phase = "running" /\ c.kind = cmd[s].kind
  /\ c.project = cmd[s].project /\ c.spec = cmd[s].spec /\ c.goal = cmd[s].goal
  /\ c.from = cmd[s].from /\ c.flagged = cmd[s].flagged
  /\ c.undisturbed => cmd[s].undisturbed

(* A step on these tables and on rows of the project p.                    *)
StaysIn(p, tables) ==
  /\ \A t \in Table \ tables : live'[t] = live[t] /\ owner'[t] = owner[t]
  /\ \A t \in tables : owner'[t] \in {owner[t], p, None}
  /\ \A r \in Project \ {p} :
       /\ lock'[r] = lock[r] /\ VersionsOf(r)' = VersionsOf(r)
       /\ migrations' \cap VersionsOf(r) \subseteq migrations

(* A step keeps the invariant if the database stays typed, its rows stay   *)
(* the project's own, and what is left to do is what the database needs.   *)
LEMMA StepKeepsInv ==
  ASSUME CommandInv, NEW s \in Session, NEW op, At(s, op),
         NEW p \in Project, Proj(s) = p, NEW tables \in SUBSET Table,
         NEW c \in Command, Changes(s, tables, c), GoesOn(s, c),
         DatabaseTyped', HistoryIsOwn', VersionsKept, StaysIn(p, tables),
         \/ c.new = cmd[s].new /\ op # "RecordSnapshot"
         \/ c.new # None /\ c.new \in DOMAIN versions' /\ versions'[c.new].project = p,
         c.kind # "destroy" /\ c.undisturbed =>
           \A t \in Table : FitsTable(c.todo, c.spec, LiveOf(p)', t),
         c.kind = "destroy" /\ c.undisturbed /\ c.todo # <<>> => ClearedUpTo(c.todo, p)'
  PROVE  CommandInv'
<1>1. Busy(s) /\ cmd[s].phase = "running" /\ Now(s).op = op
  BY AtOp
<1>2. /\ cmd' \in [Session -> Command \cup {NoCommand}]
      /\ cmd'[s] = IF c.todo = <<>> THEN NoCommand ELSE c
  BY ChangesCommands DEF CommandInv
<1>3. TypeInv'
  BY <1>2 DEF TypeInv
<1>4. \A u \in Session \ {s} : Busy(u)' => Sound(cmd[u])'
  BY ChangesOthers DEF StaysIn
<1>5. Busy(s)' => Sound(cmd[s])'
  <2> SUFFICES ASSUME Busy(s)'  PROVE Sound(cmd[s])'
    OBVIOUS
  <2>1. c.todo # <<>> /\ cmd'[s] = c
    BY <1>2 DEF Busy
  <2>2. c.project = p
    BY DEF GoesOn, Proj
  <2>3. QED
    BY <1>1, <2>1, <2>2, OwnSound DEF GoesOn
<1>6. \A u \in Session : Busy(u)' => Sound(cmd[u])'
  BY <1>4, <1>5
<1>7. QED
  BY <1>3, <1>6 DEF CommandInv

(* The same for a command that goes on with the rest of its steps.         *)
LEMMA RestKeepsInv ==
  ASSUME CommandInv, NEW s \in Session, NEW op, At(s, op), op # "RecordSnapshot",
         NEW p \in Project, Proj(s) = p, NEW tables \in SUBSET Table,
         Changes(s, tables, Rest(s)),
         DatabaseTyped', HistoryIsOwn', VersionsKept, StaysIn(p, tables),
         cmd[s].kind # "destroy" /\ cmd[s].undisturbed =>
           \A t \in Table : FitsTable(Tail(cmd[s].todo), cmd[s].spec, LiveOf(p)', t),
         cmd[s].kind = "destroy" /\ cmd[s].undisturbed /\ Tail(cmd[s].todo) # <<>> =>
           \A todo : todo = Tail(cmd[s].todo) => ClearedUpTo(todo, p)'
  PROVE  CommandInv'
<1>1. cmd[s] \in Command /\ cmd[s].todo # <<>> /\ cmd[s].phase = "running"
  BY AtOp
<1>2. PICK c : c = Rest(s)
  OBVIOUS
<1>3. c \in Command /\ GoesOn(s, c) /\ c.new = cmd[s].new
  <2>1. Rest(s) \in Command /\ Rest(s).todo = Tail(cmd[s].todo)
    BY <1>1, RestTyped DEF CommandInv
  <2>2. QED
    BY <1>1, <1>2, <2>1 DEF Rest, GoesOn, Command
<1>4. Changes(s, tables, c)
  BY <1>2
<1>5. c.kind # "destroy" /\ c.undisturbed =>
        \A t \in Table : FitsTable(c.todo, c.spec, LiveOf(p)', t)
  BY <1>3 DEF GoesOn
<1>6. c.kind = "destroy" /\ c.undisturbed /\ c.todo # <<>> => ClearedUpTo(c.todo, p)'
  BY <1>3 DEF GoesOn
<1>7. QED
  BY <1>3, <1>4, <1>5, <1>6, StepKeepsInv

-----------------------------------------------------------------------------
(* The steps of a command that executes a plan.                            *)

LEMMA LiveTyped ==
  ASSUME TypeInv, NEW p
  PROVE  LiveOf(p) \in DagState
BY DEF TypeInv, DatabaseTyped, LiveOf, DagState

(* What is left of a plan fits the tables its first step is not about.     *)
LEMMA OnCourseRest ==
  ASSUME CommandInv, NEW s \in Session, NEW op \in ChangingOps, At(s, op),
         NEW p \in Project, Proj(s) = p, cmd[s].undisturbed,
         NEW t \in Table, Now(s).table # t
  PROVE  FitsTable(Tail(cmd[s].todo), cmd[s].spec, LiveOf(p), t)
<1>1. /\ Sound(cmd[s]) /\ cmd[s].kind # "destroy" /\ cmd[s].todo # <<>>
      /\ cmd[s].todo \in Seq(ChangingStep)
  BY AtOp DEF Sound, Shaped
<1>2. FitsTable(cmd[s].todo, cmd[s].spec, LiveOf(p), t)
  BY <1>1 DEF Sound, OnCourse, Proj
<1>3. QED
  BY <1>1, <1>2, FitsRest DEF Now

(* The bookkeeping steps are about no table.                               *)
LEMMA OnCourseBookkeeping ==
  ASSUME CommandInv, NEW s \in Session, NEW op \in ChangingOps \ TableChanges, At(s, op),
         NEW p \in Project, Proj(s) = p, cmd[s].undisturbed,
         live' = live, owner' = owner, NEW t \in Table
  PROVE  FitsTable(Tail(cmd[s].todo), cmd[s].spec, LiveOf(p)', t)
<1>1. Now(s).table # t
  BY AtOp DEF ChangingStep
<1>2. FitsTable(Tail(cmd[s].todo), cmd[s].spec, LiveOf(p), t)
  BY <1>1, OnCourseRest
<1>3. QED
  BY <1>2 DEF LiveOf

LEMMA BeginKeepsInv ==
  ASSUME CommandInv, NEW s \in Session, Begin(s)
  PROVE  CommandInv'
<1>1. Busy(s) /\ cmd[s] \in Command /\ Sound(cmd[s])
  BY InACommand DEF CommandInv, Begin
<1>2. PICK p \in Project : Proj(s) = p
  BY <1>1 DEF Proj, Command
<1>3. PICK c : c = [cmd[s] EXCEPT !.phase = "running", !.row = TRUE,
                                  !.from = None, !.rebuilt = {}]
  OBVIOUS
<1>4. /\ c \in Command /\ c.todo # <<>> /\ c.todo = cmd[s].todo /\ c.kind = cmd[s].kind
      /\ c.project = p /\ c.spec = cmd[s].spec /\ c.goal = cmd[s].goal /\ c.from = None
      /\ c.flagged = cmd[s].flagged /\ c.new = cmd[s].new /\ c.phase = "running"
      /\ c.undisturbed = cmd[s].undisturbed
  <2>1. cmd[s].todo # <<>>
    BY <1>1 DEF Sound, Shaped
  <2>2. QED
    BY <1>1, <1>2, <1>3, <2>1 DEF Command, Proj
<1>5. Changes(s, {}, c)
  BY <1>3 DEF Begin
<1>6. /\ cmd' \in [Session -> Command \cup {NoCommand}] /\ cmd'[s] = c
  BY <1>4, <1>5, ChangesCommands DEF CommandInv
<1>7. Known(cmd[s].from, p)
  BY <1>1, <1>2 DEF Sound, Remembers, Proj
<1>8. DatabaseTyped'
  BY <1>7 DEF Begin, CommandInv, TypeInv, DatabaseTyped, Known
<1>9. HistoryIsOwn' /\ VersionsKept
  BY DEF Begin, CommandInv, HistoryIsOwn, VersionsKept
<1>10. StaysIn(p, {})
  BY <1>7 DEF Begin, StaysIn, VersionsOf, Known
<1>11. \A u \in Session \ {s} : Busy(u)' => Sound(cmd[u])'
  BY <1>2, <1>4, <1>5, <1>9, <1>10, ChangesOthers DEF StaysIn
<1>12. Sound(cmd[s])'
  <2>1. cmd[s].kind # "destroy"
    BY <1>1 DEF Begin, Sound, Shaped
  <2>2. Shaped(cmd[s])'
    BY <1>1, <1>2, <1>4, <1>6, <2>1 DEF Sound, Shaped, Proj
  <2>3. Remembers(cmd[s])'
    BY <1>1, <1>2, <1>4, <1>6 DEF Begin, Sound, Remembers, Known, Proj
  <2>4. KeepsRows(cmd[s])'
    BY <1>1, <1>4, <1>6 DEF Sound, KeepsRows
  <2>5. OnCourse(cmd[s])'
    BY <1>1, <1>2, <1>4, <1>6 DEF Begin, Sound, OnCourse, LiveOf, Proj
  <2>6. Cleared(cmd[s])'
    BY <1>4, <1>6, <2>1 DEF Cleared
  <2>7. QED
    BY <2>2, <2>3, <2>4, <2>5, <2>6 DEF Sound
<1>13. QED
  BY <1>6, <1>8, <1>9, <1>11, <1>12 DEF CommandInv, TypeInv

LEMMA LockDagKeepsInv ==
  ASSUME CommandInv, NEW s \in Session, LockDag(s)
  PROVE  CommandInv'
<1>1. At(s, "LockDag")
  BY DEF LockDag
<1>2. PICK p \in Project : Proj(s) = p
  BY <1>1, AtOp
<1>3. cmd[s].kind # "destroy"
  BY <1>1, AtOp DEF ChangingOps
<1>4. DatabaseTyped' /\ HistoryIsOwn' /\ VersionsKept /\ StaysIn(p, {})
  <2>1. lock' = [lock EXCEPT ![p] = s]
    BY <1>2 DEF LockDag
  <2>2. QED
    BY <2>1 DEF LockDag, CommandInv, TypeInv, DatabaseTyped, HistoryIsOwn, VersionsKept,
                StaysIn, VersionsOf
<1>5. cmd[s].undisturbed =>
        \A t \in Table : FitsTable(Tail(cmd[s].todo), cmd[s].spec, LiveOf(p)', t)
  BY <1>1, <1>2, OnCourseBookkeeping DEF LockDag, ChangingOps, TableChanges
<1>6. Changes(s, {}, Rest(s))
  BY DEF LockDag
<1>7. QED
  BY <1>1, <1>2, <1>3, <1>4, <1>5, <1>6, RestKeepsInv

LEMMA UnlockDagKeepsInv ==
  ASSUME CommandInv, NEW s \in Session, UnlockDag(s)
  PROVE  CommandInv'
<1>1. At(s, "UnlockDag")
  BY DEF UnlockDag
<1>2. PICK p \in Project : Proj(s) = p
  BY <1>1, AtOp
<1>3. cmd[s].kind # "destroy"
  BY <1>1, AtOp DEF ChangingOps
<1>4. Committed(s) \subseteq {v \in DOMAIN versions : v = cmd[s].new /\ versions[v] # Absent
                                                  /\ versions[v].project = p}
  <2>1. Sound(cmd[s]) /\ cmd[s].todo # <<>> /\ Now(s) = cmd[s].todo[1] /\ Now(s).op = "UnlockDag"
    BY <1>1, AtOp
  <2>2. /\ cmd[s].todo \in Seq(ChangingStep) /\ UnlocksLast(cmd[s].todo)
        /\ cmd[s].new = None => RecordsSnapshot(cmd[s].todo)
    BY <1>3, <2>1 DEF Sound, Shaped
  <2>3. DOMAIN cmd[s].todo = 1 .. Len(cmd[s].todo) /\ Len(cmd[s].todo) = 1
    BY <2>1, <2>2, RestFacts DEF UnlocksLast
  <2>4. ~RecordsSnapshot(cmd[s].todo)
    BY <2>1, <2>3 DEF RecordsSnapshot
  <2>5. cmd[s].new # None /\ Known(cmd[s].new, p)
    BY <1>2, <2>1, <2>2, <2>4 DEF Sound, Remembers, Proj
  <2>6. QED
    BY <2>5 DEF Committed, Known
<1>5. DatabaseTyped' /\ HistoryIsOwn' /\ VersionsKept /\ StaysIn(p, {})
  <2>1. lock' = [lock EXCEPT ![p] = IF @ = s THEN None ELSE @]
    BY <1>2 DEF UnlockDag
  <2>2. lock' \in [Project -> Session \cup {None}] /\ \A r \in Project \ {p} : lock'[r] = lock[r]
    BY <2>1 DEF CommandInv, TypeInv, DatabaseTyped
  <2>3. DatabaseTyped' /\ HistoryIsOwn' /\ VersionsKept
    BY <1>4, <2>2 DEF UnlockDag, CommandInv, TypeInv, DatabaseTyped, HistoryIsOwn, VersionsKept
  <2>4. \A r \in Project \ {p} : /\ VersionsOf(r)' = VersionsOf(r)
                                 /\ migrations' \cap VersionsOf(r) \subseteq migrations
    BY <1>4 DEF UnlockDag, VersionsOf
  <2>5. QED
    BY <2>2, <2>3, <2>4 DEF UnlockDag, StaysIn
<1>6. cmd[s].undisturbed =>
        \A t \in Table : FitsTable(Tail(cmd[s].todo), cmd[s].spec, LiveOf(p)', t)
  BY <1>1, <1>2, OnCourseBookkeeping DEF UnlockDag, ChangingOps, TableChanges
<1>7. Changes(s, {}, Rest(s))
  BY DEF UnlockDag
<1>8. QED
  BY <1>1, <1>2, <1>3, <1>5, <1>6, <1>7, RestKeepsInv

LEMMA TableStepKeepsInv ==
  ASSUME CommandInv, NEW s \in Session, TableStep(s)
  PROVE  CommandInv'
<1>1. PICK op \in TableChanges : At(s, op)
  BY DEF TableStep, TableChanges
<1>2. PICK p \in Project : Proj(s) = p
  BY <1>1, AtOp
<1>3. /\ Now(s) \in ChangingStep /\ Now(s).op = op /\ cmd[s].kind # "destroy"
      /\ cmd[s] \in Command /\ Sound(cmd[s]) /\ cmd[s].todo # <<>>
  BY <1>1, AtOp DEF ChangingOps, TableChanges
<1>4. PICK step \in ChangingStep : step = Now(s) /\ step.op = op
  BY <1>3
<1>5. PICK x \in Table : x = step.table
  BY <1>4 DEF ChangingStep
<1>6. /\ live' = Effect(live, step)
      /\ owner' = CASE op = "CreateStreamTable" -> [owner EXCEPT ![x] = p]
                    [] op = "DropStreamTable"   -> [owner EXCEPT ![x] = None]
                    [] OTHER -> owner
      /\ Changes(s, {x}, Rest(s))
      /\ UNCHANGED <<versions, migrations, lock, hour>>
  <2>1. \A o : At(s, o) <=> o = op
    BY <1>1 DEF At
  <2>2. QED
    BY <1>2, <1>4, <1>5, <2>1 DEF TableStep
<1>7. live \in DagState /\ owner \in [Table -> Project \cup {None}]
  BY DEF CommandInv, TypeInv, DatabaseTyped
<1>8. /\ live' \in DagState /\ owner' \in [Table -> Project \cup {None}]
      /\ \A t \in Table \ {x} : live'[t] = live[t] /\ owner'[t] = owner[t]
      /\ op = "CreateStreamTable" => live'[x] = step.args /\ owner'[x] = p
      /\ op = "DropStreamTable" => live'[x] = Absent /\ owner'[x] = None
      /\ op = "AlterStreamTable" =>
           /\ owner'[x] = owner[x]
           /\ live[x] # Absent => live'[x] = Coalesce(live[x], step.args)
  <2>1. CASE op = "CreateStreamTable"
    <3>1. live' = [live EXCEPT ![x] = step.args] /\ owner' = [owner EXCEPT ![x] = p]
      BY <1>4, <1>5, <1>6, <2>1 DEF Effect, CreateTable
    <3>2. step.args \in TableSpec
      BY <1>4, <2>1 DEF ChangingStep
    <3>3. QED
      BY <1>7, <2>1, <3>1, <3>2 DEF DagState
  <2>2. CASE op = "DropStreamTable"
    <3>1. live' = [live EXCEPT ![x] = Absent] /\ owner' = [owner EXCEPT ![x] = None]
      BY <1>4, <1>5, <1>6, <2>2 DEF Effect, DropTable
    <3>2. QED
      BY <1>7, <2>2, <3>1 DEF DagState
  <2>3. CASE op = "AlterStreamTable"
    <3>1. /\ live' = IF live[x] = Absent THEN live
                     ELSE [live EXCEPT ![x] = Coalesce(live[x], step.args)]
          /\ owner' = owner
      BY <1>4, <1>5, <1>6, <2>3 DEF Effect, AlterTable
    <3>2. live[x] # Absent => Coalesce(live[x], step.args) \in TableSpec
      <4>1. step.args \in AlterArgs
        BY <1>4 DEF ChangingStep, Step
      <4>2. live[x] # Absent => live[x] \in TableSpec
        BY <1>7 DEF DagState
      <4>3. QED
        BY <4>1, <4>2 DEF Coalesce, OrElse, TableSpec, AlterArgs
    <3>3. QED
      BY <1>7, <2>3, <3>1, <3>2 DEF DagState
  <2>4. QED
    BY <2>1, <2>2, <2>3 DEF TableChanges
<1>9. DatabaseTyped' /\ HistoryIsOwn' /\ VersionsKept /\ StaysIn(p, {x})
  <2>1. DatabaseTyped' /\ HistoryIsOwn' /\ VersionsKept
    BY <1>6, <1>8 DEF CommandInv, TypeInv, DatabaseTyped, HistoryIsOwn, VersionsKept
  <2>2. owner'[x] \in {owner[x], p, None}
    BY <1>8 DEF TableChanges
  <2>3. QED
    BY <1>6, <1>8, <2>1, <2>2 DEF StaysIn, VersionsOf
<1>10. ASSUME cmd[s].undisturbed, NEW t \in Table
       PROVE  FitsTable(Tail(cmd[s].todo), cmd[s].spec, LiveOf(p)', t)
  <2> DEFINE now == [y \in Table |-> IF owner'[y] = p THEN live'[y] ELSE Absent]
  <2>1. CASE t # x
    <3>1. FitsTable(Tail(cmd[s].todo), cmd[s].spec, LiveOf(p), t)
      BY <1>1, <1>2, <1>4, <1>5, <1>10, <2>1, OnCourseRest DEF ChangingOps, TableChanges
    <3>2. now[t] = LiveOf(p)[t]
      BY <1>8, <2>1 DEF LiveOf
    <3> HIDE DEF now
    <3>3. FitsTable(Tail(cmd[s].todo), cmd[s].spec, now, t)
      BY <3>1, <3>2, FitsSame
    <3>4. QED
      BY <3>3 DEF now, LiveOf
  <2>2. CASE t = x
    <3>1. cmd[s].todo \in Seq(ChangingStep)
      BY <1>3 DEF Sound, Shaped
    <3>2. FitsTable(cmd[s].todo, cmd[s].spec, LiveOf(p), x)
      BY <1>2, <1>3, <1>10 DEF Sound, OnCourse, Proj
    <3>3. Head(cmd[s].todo) = step
      BY <1>4 DEF Now
    <3>4. LiveOf(p) \in DagState /\ cmd[s].spec \in DagState
      BY <1>3, LiveTyped DEF CommandInv, Command
    <3>5. /\ step.op = "CreateStreamTable" => now[x] = step.args
          /\ step.op = "DropStreamTable" => now[x] = Absent
          /\ step.op = "AlterStreamTable" /\ LiveOf(p)[x] # Absent =>
               now[x] = Coalesce(LiveOf(p)[x], step.args)
      BY <1>4, <1>8 DEF LiveOf
    <3> HIDE DEF now
    <3>6. FitsTable(Tail(cmd[s].todo), cmd[s].spec, now, x)
      BY <1>3, <1>5, <3>1, <3>2, <3>3, <3>4, <3>5, FitsStep
    <3>7. QED
      BY <2>2, <3>6 DEF now, LiveOf
  <2>3. QED
    BY <2>1, <2>2
<1>11. op # "RecordSnapshot"
  BY DEF TableChanges
<1>12. QED
  BY <1>1, <1>2, <1>3, <1>6, <1>9, <1>10, <1>11, RestKeepsInv

LEMMA RecordSnapshotKeepsInv ==
  ASSUME CommandInv, NEW s \in Session, RecordSnapshot(s)
  PROVE  CommandInv'
<1>1. At(s, "RecordSnapshot")
  BY DEF RecordSnapshot
<1>2. PICK p \in Project : Proj(s) = p
  BY <1>1, AtOp
<1>3. cmd[s].kind # "destroy" /\ cmd[s] \in Command /\ Sound(cmd[s]) /\ cmd[s].todo # <<>>
  BY <1>1, AtOp DEF ChangingOps
<1>4. cmd[s].spec \in Files[p] /\ cmd[s].spec \in DagState
  BY <1>2, <1>3 DEF Sound, Shaped, Proj, Command
<1>5. PICK version : version = [project |-> p, spec |-> cmd[s].spec, recent |-> TRUE]
  OBVIOUS
<1>6. version \in VersionRow /\ version # Absent
  <2>1. version \in VersionRow
    BY <1>4, <1>5 DEF VersionRow
  <2>2. QED
    BY <2>1, NothingAssumption
<1>7. versions \in Seq(VersionRow \cup {Absent}) /\ versions' = Append(versions, version)
  BY <1>2, <1>5 DEF RecordSnapshot, CommandInv, TypeInv, DatabaseTyped
<1>8. PICK new : new = Len(versions) + 1
  OBVIOUS
<1>9. /\ versions' \in Seq(VersionRow \cup {Absent})
      /\ DOMAIN versions = 1 .. Len(versions) /\ Len(versions) \in Nat /\ new \in Nat
      /\ DOMAIN versions' = DOMAIN versions \cup {new} /\ new \notin DOMAIN versions
      /\ \A v \in DOMAIN versions : versions'[v] = versions[v]
      /\ versions'[new] = version
  BY <1>6, <1>7, <1>8, AppendProperties, LenProperties
<1>10. PICK c : c = [Rest(s) EXCEPT !.new = Len(versions) + 1]
  OBVIOUS
<1>11. /\ c \in Command /\ GoesOn(s, c) /\ c.new = new /\ c.kind # "destroy"
       /\ Changes(s, {}, c)
  <2>1. Rest(s) \in Command /\ Rest(s).todo = Tail(cmd[s].todo)
    BY <1>3, RestTyped DEF CommandInv
  <2>2. cmd[s].phase = "running"
    BY <1>1, AtOp
  <2>3. QED
    BY <1>3, <1>8, <1>9, <1>10, <2>1, <2>2 DEF Rest, GoesOn, Command, RecordSnapshot
<1>12. DatabaseTyped' /\ HistoryIsOwn' /\ VersionsKept /\ StaysIn(p, {})
  <2>1. DatabaseTyped'
    BY <1>9 DEF RecordSnapshot, CommandInv, TypeInv, DatabaseTyped
  <2>2. HistoryIsOwn'
    BY <1>4, <1>5, <1>9 DEF CommandInv, HistoryIsOwn
  <2>3. VersionsKept
    <3>1. \A v \in DOMAIN versions :
            versions[v] # Absent \/ versions'[v] = Absent
      BY <1>9
    <3>2. QED
      BY <1>9, <3>1 DEF VersionsKept
  <2>4. \A r \in Project \ {p} : VersionsOf(r)' = VersionsOf(r)
    BY <1>5, <1>9 DEF VersionsOf
  <2>5. QED
    BY <2>1, <2>2, <2>3, <2>4 DEF RecordSnapshot, StaysIn
<1>13. cmd[s].undisturbed =>
         \A t \in Table : FitsTable(Tail(cmd[s].todo), cmd[s].spec, LiveOf(p)', t)
  BY <1>1, <1>2, OnCourseBookkeeping DEF RecordSnapshot, ChangingOps, TableChanges
<1>14. c.kind # "destroy" /\ c.undisturbed =>
         \A t \in Table : FitsTable(c.todo, c.spec, LiveOf(p)', t)
  BY <1>11, <1>13 DEF GoesOn
<1>15. c.new # None /\ c.new \in DOMAIN versions' /\ versions'[c.new].project = p
  BY <1>5, <1>9, <1>11, NothingAssumption
<1>16. QED
  BY <1>1, <1>2, <1>11, <1>12, <1>14, <1>15, StepKeepsInv

-----------------------------------------------------------------------------
(* The statements of a destroy.                                            *)

(* What an undisturbed destroy at this statement may count on, todo being  *)
(* what it has still to do after that.                                     *)
ClearedBefore(todo, op, p) ==
  /\ \A i \in DOMAIN todo : todo[i].op = "Drop" =>
       todo[i].table \in Table /\ owner[todo[i].table] = p
  /\ op = "DeleteOwnership" => ~Remains(todo, "Drop")
  /\ op = "DeleteVersions" => migrations \cap VersionsOf(p) = {}
  /\ ~Remains(todo, "DeleteLocks") /\ op # "DeleteLocks" => lock[p] = None
  /\ ~Remains(todo, "DeleteMigrations") /\ op # "DeleteMigrations" =>
       migrations \cap VersionsOf(p) = {}
  /\ ~Remains(todo, "DeleteVersions") /\ op # "DeleteVersions" => VersionsOf(p) = {}
  /\ ~Remains(todo, "DeleteOwnership") /\ op # "DeleteOwnership" =>
       \A t \in Table : owner[t] # p

LEMMA ClearedRest ==
  ASSUME CommandInv, NEW s \in Session, NEW op \in DestroyOps, At(s, op),
         NEW p \in Project, Proj(s) = p, cmd[s].undisturbed,
         NEW todo, todo = Tail(cmd[s].todo)
  PROVE  ClearedBefore(todo, op, p)
<1> DEFINE all == cmd[s].todo
<1>1. /\ cmd[s].kind = "destroy" /\ Sound(cmd[s]) /\ all # <<>>
      /\ Now(s) = all[1] /\ Now(s).op = op
  BY AtOp
<1>2. all \in Seq(DestroyStep) /\ DestroyOrdered(all) /\ ClearedUpTo(all, p)
  BY <1>1 DEF Sound, Shaped, Cleared, Proj
<1>3. /\ DOMAIN all = 1 .. Len(all) /\ Len(all) \in Nat \ {0}
      /\ DOMAIN todo = 1 .. Len(all) - 1
      /\ \A i \in DOMAIN todo : todo[i] = all[i + 1] /\ i + 1 \in DOMAIN all
      /\ todo \in Seq(DestroyStep)
  BY <1>1, <1>2, RestFacts
<1>4. \A i \in DOMAIN todo : todo[i] \in DestroyStep
  BY <1>3, ElementOfSeq, LenProperties
<1>5. ASSUME NEW o, ~Remains(todo, o), op # o  PROVE ~Remains(all, o)
  <2> SUFFICES ASSUME NEW i \in DOMAIN all, all[i].op = o  PROVE FALSE
    BY DEF Remains
  <2>1. i # 1
    BY <1>1, <1>5
  <2>2. i - 1 \in DOMAIN todo /\ todo[i - 1] = all[i]
    BY <1>3, <2>1
  <2>3. QED
    BY <1>5, <2>2 DEF Remains
<1>6. ASSUME NEW o, Before(all, o, op)  PROVE ~Remains(todo, o)
  <2> SUFFICES ASSUME NEW i \in DOMAIN todo, todo[i].op = o  PROVE FALSE
    BY DEF Remains
  <2>1. i + 1 < 1
    BY <1>1, <1>3, <1>6 DEF Before
  <2>2. QED
    BY <1>3, <2>1
<1>7. \A i \in DOMAIN todo : todo[i].op = "Drop" =>
        todo[i].table \in Table /\ owner[todo[i].table] = p
  BY <1>2, <1>3, <1>4 DEF DestroyStep, ClearedUpTo
<1>8. op = "DeleteOwnership" => ~Remains(todo, "Drop")
  BY <1>2, <1>6 DEF DestroyOrdered
<1>9. op = "DeleteVersions" => ~Remains(todo, "DeleteMigrations")
  BY <1>2, <1>6 DEF DestroyOrdered
<1>10. QED
  BY <1>2, <1>5, <1>7, <1>8, <1>9 DEF ClearedUpTo, ClearedBefore

(* A statement leaves what was cleared, or clears what it is there for.     *)
LEMMA ClearedNext ==
  ASSUME CommandInv, NEW s \in Session, NEW op \in DestroyOps, At(s, op),
         NEW p \in Project, Proj(s) = p, cmd[s].undisturbed,
         NEW todo, todo = Tail(cmd[s].todo),
         IF op = "DeleteOwnership" THEN \A t \in Table : owner'[t] # p
         ELSE \A t \in Table : owner'[t] = owner[t],
         lock'[p] = IF op = "DeleteLocks" THEN None ELSE lock[p],
         IF op = "DeleteMigrations" THEN migrations' \cap VersionsOf(p)' = {}
         ELSE migrations' = migrations,
         IF op = "DeleteVersions" /\ migrations \cap VersionsOf(p) = {}
         THEN VersionsOf(p)' = {}
         ELSE VersionsOf(p)' = VersionsOf(p)
  PROVE  ClearedUpTo(todo, p)'
<1>1. ClearedBefore(todo, op, p)
  BY ClearedRest
<1>2. \A i \in DOMAIN todo : todo[i].op = "Drop" => owner'[todo[i].table] = p
  BY <1>1 DEF ClearedBefore, Remains
<1>3. ~Remains(todo, "DeleteLocks") => lock'[p] = None
  BY <1>1 DEF ClearedBefore
<1>4. ~Remains(todo, "DeleteMigrations") => migrations' \cap VersionsOf(p)' = {}
  BY <1>1 DEF ClearedBefore
<1>5. ~Remains(todo, "DeleteVersions") => VersionsOf(p)' = {}
  BY <1>1 DEF ClearedBefore
<1>6. ~Remains(todo, "DeleteOwnership") => \A t \in Table : owner'[t] # p
  BY <1>1 DEF ClearedBefore
<1>7. QED
  BY <1>2, <1>3, <1>4, <1>5, <1>6 DEF ClearedUpTo

(* An error that is ignored disturbs the destroy and changes nothing.      *)
LEMMA IgnoredError ==
  ASSUME CommandInv, NEW s \in Session, NEW op \in DestroyOps, At(s, op),
         Changes(s, {}, [Rest(s) EXCEPT !.undisturbed = FALSE]),
         UNCHANGED <<database, hour>>
  PROVE  CommandInv'
<1>1. /\ cmd[s] \in Command /\ cmd[s].todo # <<>> /\ cmd[s].phase = "running"
      /\ cmd[s].kind = "destroy"
  BY AtOp
<1>2. PICK p \in Project : Proj(s) = p
  BY AtOp
<1>3. PICK c : c = [Rest(s) EXCEPT !.undisturbed = FALSE]
  OBVIOUS
<1>4. /\ c \in Command /\ GoesOn(s, c) /\ c.new = cmd[s].new /\ ~c.undisturbed
      /\ c.kind = "destroy" /\ Changes(s, {}, c)
  <2>1. Rest(s) \in Command /\ Rest(s).todo = Tail(cmd[s].todo)
    BY <1>1, RestTyped DEF CommandInv
  <2>2. QED
    BY <1>1, <1>3, <2>1 DEF Rest, GoesOn, Command
<1>5. DatabaseTyped' /\ HistoryIsOwn' /\ VersionsKept /\ StaysIn(p, {})
  BY DEF database, CommandInv, TypeInv, DatabaseTyped, HistoryIsOwn, VersionsKept,
         StaysIn, VersionsOf
<1>6. op # "RecordSnapshot"
  BY DEF DestroyOps
<1>7. QED
  BY <1>2, <1>4, <1>5, <1>6, StepKeepsInv

LEMMA DropKeepsInv ==
  ASSUME CommandInv, NEW s \in Session, Drop(s)
  PROVE  CommandInv'
<1>1. At(s, "Drop") /\ "Drop" \in DestroyOps
  BY DEF Drop, DestroyOps
<1>2. PICK p \in Project : Proj(s) = p
  BY <1>1, AtOp
<1>3. cmd[s].kind = "destroy" /\ Now(s) \in DestroyStep /\ Now(s).op = "Drop"
  BY <1>1, AtOp
<1>4. PICK x \in Table : x = Now(s).table
  BY <1>3 DEF DestroyStep
<1>5. CASE /\ live' = DropTable(live, Now(s).table)
           /\ Changes(s, {Now(s).table}, Rest(s))
           /\ UNCHANGED <<owner, versions, migrations, lock, hour>>
  <2>1. live' = [live EXCEPT ![x] = Absent] /\ Changes(s, {x}, Rest(s))
    BY <1>4, <1>5 DEF DropTable
  <2>2. DatabaseTyped' /\ HistoryIsOwn' /\ VersionsKept /\ StaysIn(p, {x})
    BY <1>5, <2>1 DEF CommandInv, TypeInv, DatabaseTyped, HistoryIsOwn, VersionsKept,
                      StaysIn, VersionsOf, DagState
  <2>3. ASSUME cmd[s].undisturbed, NEW todo, todo = Tail(cmd[s].todo)
        PROVE  ClearedUpTo(todo, p)'
    <3>1. VersionsOf(p)' = VersionsOf(p)
      BY <1>5 DEF VersionsOf
    <3>2. QED
      BY <1>1, <1>2, <1>5, <2>3, <3>1, ClearedNext
  <2>4. QED
    BY <1>1, <1>2, <1>3, <2>1, <2>2, <2>3, RestKeepsInv
<1>6. CASE /\ Changes(s, {}, [Rest(s) EXCEPT !.undisturbed = FALSE])
           /\ UNCHANGED <<database, hour>>
  BY <1>1, <1>6, IgnoredError
<1>7. QED
  BY <1>5, <1>6 DEF Drop, Ignoring

LEMMA DeleteLocksKeepsInv ==
  ASSUME CommandInv, NEW s \in Session, DeleteLocks(s)
  PROVE  CommandInv'
<1>1. At(s, "DeleteLocks") /\ "DeleteLocks" \in DestroyOps
  BY DEF DeleteLocks, DestroyOps
<1>2. PICK p \in Project : Proj(s) = p
  BY <1>1, AtOp
<1>3. cmd[s].kind = "destroy"
  BY <1>1, AtOp
<1>4. CASE /\ lock' = [lock EXCEPT ![Proj(s)] = None]
           /\ Changes(s, {}, Rest(s))
           /\ UNCHANGED <<live, owner, versions, migrations, hour>>
  <2>1. lock' = [lock EXCEPT ![p] = None]
    BY <1>2, <1>4
  <2>2. DatabaseTyped' /\ HistoryIsOwn' /\ VersionsKept /\ StaysIn(p, {})
    BY <1>4, <2>1 DEF CommandInv, TypeInv, DatabaseTyped, HistoryIsOwn, VersionsKept,
                      StaysIn, VersionsOf
  <2>3. lock'[p] = None
    BY <2>1 DEF CommandInv, TypeInv, DatabaseTyped
  <2>4. ASSUME cmd[s].undisturbed, NEW todo, todo = Tail(cmd[s].todo)
        PROVE  ClearedUpTo(todo, p)'
    <3>1. VersionsOf(p)' = VersionsOf(p)
      BY <1>4 DEF VersionsOf
    <3>2. QED
      BY <1>1, <1>2, <1>4, <2>3, <2>4, <3>1, ClearedNext
  <2>5. QED
    BY <1>1, <1>2, <1>3, <1>4, <2>2, <2>4, RestKeepsInv
<1>5. CASE /\ Changes(s, {}, [Rest(s) EXCEPT !.undisturbed = FALSE])
           /\ UNCHANGED <<database, hour>>
  BY <1>1, <1>5, IgnoredError
<1>6. QED
  BY <1>4, <1>5 DEF DeleteLocks, Ignoring

LEMMA DeleteMigrationsKeepsInv ==
  ASSUME CommandInv, NEW s \in Session, DeleteMigrations(s)
  PROVE  CommandInv'
<1>1. At(s, "DeleteMigrations") /\ "DeleteMigrations" \in DestroyOps
  BY DEF DeleteMigrations, DestroyOps
<1>2. PICK p \in Project : Proj(s) = p
  BY <1>1, AtOp
<1>3. /\ cmd[s].kind = "destroy" /\ cmd[s] \in Command /\ cmd[s].phase = "running"
      /\ Busy(s) /\ cmd[s].todo # <<>> /\ Sound(cmd[s])
      /\ Now(s) = cmd[s].todo[1] /\ Now(s).op = "DeleteMigrations"
  BY <1>1, AtOp
<1>4. CASE /\ migrations' = migrations \ VersionsOf(Proj(s))
           /\ cmd' = [u \in Session |->
                        CASE u = s -> Rest(s)
                          [] u # s /\ Busy(u) /\ Proj(u) = Proj(s) ->
                               [cmd[u] EXCEPT !.row = FALSE]
                          [] OTHER -> cmd[u]]
           /\ UNCHANGED <<live, owner, versions, lock, hour>>
  <2>1. PICK c : c = Rest(s)
    OBVIOUS
  <2>2. /\ c \in Command /\ GoesOn(s, c) /\ c.new = cmd[s].new /\ c.project = p
    <3>1. Rest(s) \in Command /\ Rest(s).todo = Tail(cmd[s].todo)
      BY <1>3, RestTyped DEF CommandInv
    <3>2. QED
      BY <1>2, <1>3, <2>1, <3>1 DEF Rest, GoesOn, Command, Proj
  <2>3. c.todo # <<>>
    <3>1. cmd[s].todo \in Seq(DestroyStep) /\ DestroyOrdered(cmd[s].todo)
      BY <1>3 DEF Sound, Shaped
    <3>2. Len(cmd[s].todo) # 1
      BY <1>3, <3>1, RestFacts DEF DestroyOrdered
    <3>3. QED
      BY <1>3, <2>2, <3>1, <3>2, RestFacts DEF GoesOn
  <2>4. cmd'[s] = c
    BY <1>4, <2>1
  <2>5. ASSUME NEW u \in Session \ {s}
        PROVE  /\ SameCommand(u)
               /\ cmd'[u] \in Command \cup {NoCommand}
    <3>1. cmd[u] \in Command \cup {NoCommand} /\ NoCommand \notin Command
      BY DEF CommandInv, TypeInv, NoCommand, Command
    <3>2. CASE Busy(u) /\ Proj(u) = Proj(s)
      <4>1. cmd'[u] = [cmd[u] EXCEPT !.row = FALSE]
        BY <1>4, <2>5, <3>2
      <4>2. cmd[u] \in Command
        BY <3>1, <3>2 DEF Busy
      <4>3. cmd'[u] \in Command
        BY <4>1, <4>2 DEF Command
      <4>4. Busy(u)'
        BY <3>1, <4>3 DEF Busy
      <4>5. QED
        BY <3>2, <4>1, <4>2, <4>3, <4>4 DEF SameCommand, Command
    <3>3. CASE ~(Busy(u) /\ Proj(u) = Proj(s))
      <4>1. cmd'[u] = cmd[u]
        BY <1>4, <2>5, <3>3
      <4>2. QED
        BY <3>1, <4>1 DEF SameCommand, Busy
    <3>4. QED
      BY <3>2, <3>3
  <2>6. cmd' \in [Session -> Command \cup {NoCommand}]
    <3>1. \A u \in Session : cmd'[u] \in Command \cup {NoCommand}
      BY <2>2, <2>4, <2>5
    <3>2. QED
      BY <1>4, <3>1
  <2>7. VersionsOf(p)' = VersionsOf(p)
    BY <1>4 DEF VersionsOf
  <2>8. DatabaseTyped' /\ HistoryIsOwn' /\ VersionsKept
    BY <1>4 DEF CommandInv, TypeInv, DatabaseTyped, HistoryIsOwn, VersionsKept
  <2>9. ASSUME NEW u \in Session \ {s}, Busy(u)'  PROVE Sound(cmd[u])'
    <3>1. SameCommand(u)
      BY <2>5
    <3>2. Busy(u) /\ Sound(cmd[u]) /\ cmd[u] \in Command
      BY <2>9, <3>1, InACommand DEF SameCommand, CommandInv
    <3>3. PICK r \in Project : Proj(u) = r
      BY <3>2 DEF Proj, Command
    <3>4. cmd[u].kind = "destroy" => cmd[u].todo \in Seq(DestroyStep)
      BY <3>2 DEF Sound, Shaped
    <3>5. StillCleared(r)
      BY <1>4 DEF StillCleared, VersionsOf
    <3>6. \A t \in Table : LiveOf(r)'[t] = LiveOf(r)[t]
      BY <1>4 DEF LiveOf
    <3>7. QED
      BY <2>8, <3>1, <3>2, <3>3, <3>4, <3>5, <3>6, OtherSound
  <2>10. Sound(cmd[s])'
    <3>1. c.kind = "destroy" /\ c.undisturbed => ClearedUpTo(c.todo, p)'
      <4> SUFFICES ASSUME c.undisturbed  PROVE ClearedUpTo(c.todo, p)'
        OBVIOUS
      <4>1. PICK todo : todo = c.todo
        OBVIOUS
      <4>2. todo = Tail(cmd[s].todo) /\ cmd[s].undisturbed
        BY <2>2, <4>1 DEF GoesOn
      <4>3. /\ \A t \in Table : owner'[t] = owner[t]
            /\ lock'[p] = lock[p]
            /\ migrations' \cap VersionsOf(p)' = {}
        BY <1>2, <1>4, <2>7
      <4>4. ClearedUpTo(todo, p)'
        BY <1>1, <1>2, <2>7, <4>2, <4>3, ClearedNext
      <4>5. QED
        BY <4>1, <4>4
    <3>2. c.kind = "destroy"
      BY <1>3, <2>2 DEF GoesOn
    <3>3. Now(s).op # "RecordSnapshot"
      BY <1>3
    <3>4. QED
      BY <1>2, <1>3, <2>2, <2>3, <2>4, <2>8, <3>1, <3>2, <3>3, OwnSound DEF GoesOn
  <2>11. QED
    BY <2>6, <2>8, <2>9, <2>10 DEF CommandInv, TypeInv
<1>5. CASE /\ Changes(s, {}, [Rest(s) EXCEPT !.undisturbed = FALSE])
           /\ UNCHANGED <<database, hour>>
  BY <1>1, <1>5, IgnoredError
<1>6. QED
  BY <1>4, <1>5 DEF DeleteMigrations, Ignoring

(* The versions go only when no migration refers to any of them.           *)
LEMMA DeleteVersionsKeepsInv ==
  ASSUME CommandInv, NEW s \in Session, DeleteVersions(s)
  PROVE  CommandInv'
<1>1. At(s, "DeleteVersions") /\ "DeleteVersions" \in DestroyOps
  BY DEF DeleteVersions, DestroyOps
<1>2. PICK p \in Project : Proj(s) = p
  BY <1>1, AtOp
<1>3. cmd[s].kind = "destroy"
  BY <1>1, AtOp
<1>4. CASE /\ versions' = IF DeletedVersions(Proj(s)) \cap migrations # {} THEN versions
                          ELSE [v \in DOMAIN versions |->
                                  IF v \in DeletedVersions(Proj(s)) THEN Absent
                                  ELSE versions[v]]
           /\ Changes(s, {}, Rest(s))
           /\ UNCHANGED <<live, owner, migrations, lock, hour>>
  <2>1. CASE VersionsOf(p) \cap migrations # {}
    <3>1. versions' = versions
      BY <1>2, <1>4, <2>1 DEF DeletedVersions
    <3>2. DatabaseTyped' /\ HistoryIsOwn' /\ VersionsKept /\ StaysIn(p, {})
      BY <1>4, <3>1 DEF CommandInv, TypeInv, DatabaseTyped, HistoryIsOwn, VersionsKept,
                        StaysIn, VersionsOf
    <3>3. ASSUME cmd[s].undisturbed, NEW todo, todo = Tail(cmd[s].todo)
          PROVE  ClearedUpTo(todo, p)'
      <4>1. VersionsOf(p)' = VersionsOf(p)
        BY <3>1 DEF VersionsOf
      <4>2. QED
        BY <1>1, <1>2, <1>4, <2>1, <3>3, <4>1, ClearedNext
    <3>4. QED
      BY <1>1, <1>2, <1>3, <1>4, <3>2, <3>3, RestKeepsInv
  <2>2. CASE VersionsOf(p) \cap migrations = {}
    <3>1. versions' = [v \in DOMAIN versions |->
                         IF v \in VersionsOf(p) THEN Absent ELSE versions[v]]
      BY <1>2, <1>4, <2>2 DEF DeletedVersions
    <3>2. versions \in Seq(VersionRow \cup {Absent})
      BY DEF CommandInv, TypeInv, DatabaseTyped
    <3>3. /\ DOMAIN versions = 1 .. Len(versions) /\ Len(versions) \in Nat
          /\ \A v \in DOMAIN versions : versions[v] \in VersionRow \cup {Absent}
      BY <3>2, LenProperties, ElementOfSeq
    <3>4. versions' \in Seq(VersionRow \cup {Absent})
      BY <3>1, <3>3, SeqDef
    <3>5. /\ DOMAIN versions' = DOMAIN versions
          /\ \A v \in DOMAIN versions :
               versions'[v] = IF v \in VersionsOf(p) THEN Absent ELSE versions[v]
      BY <3>1
    <3>6. DatabaseTyped'
      BY <1>4, <2>2, <3>4, <3>5 DEF CommandInv, TypeInv, DatabaseTyped
    <3>7. HistoryIsOwn' /\ VersionsKept
      <4>1. HistoryIsOwn'
        BY <3>5 DEF CommandInv, HistoryIsOwn
      <4>2. \A v \in DOMAIN versions : versions'[v] = Absent \/ versions'[v] = versions[v]
        BY <3>5
      <4>3. QED
        BY <3>5, <4>1, <4>2 DEF VersionsKept
    <3>8. /\ VersionsOf(p)' = {}
          /\ \A r \in Project \ {p} : VersionsOf(r)' = VersionsOf(r)
      BY <3>5 DEF VersionsOf
    <3>9. StaysIn(p, {})
      BY <1>4, <3>8 DEF StaysIn
    <3>10. ASSUME cmd[s].undisturbed, NEW todo, todo = Tail(cmd[s].todo)
           PROVE  ClearedUpTo(todo, p)'
      BY <1>1, <1>2, <1>4, <2>2, <3>8, <3>10, ClearedNext
    <3>11. QED
      BY <1>1, <1>2, <1>3, <1>4, <3>6, <3>7, <3>9, <3>10, RestKeepsInv
  <2>3. QED
    BY <2>1, <2>2
<1>5. CASE /\ Changes(s, {}, [Rest(s) EXCEPT !.undisturbed = FALSE])
           /\ UNCHANGED <<database, hour>>
  BY <1>1, <1>5, IgnoredError
<1>6. QED
  BY <1>4, <1>5 DEF DeleteVersions, Ignoring

LEMMA DeleteOwnershipKeepsInv ==
  ASSUME CommandInv, NEW s \in Session, DeleteOwnership(s)
  PROVE  CommandInv'
<1>1. At(s, "DeleteOwnership") /\ "DeleteOwnership" \in DestroyOps
  BY DEF DeleteOwnership, DestroyOps
<1>2. PICK p \in Project : Proj(s) = p
  BY <1>1, AtOp
<1>3. cmd[s].kind = "destroy"
  BY <1>1, AtOp
<1>4. CASE /\ owner' = [t \in Table |-> IF owner[t] = Proj(s) THEN None ELSE owner[t]]
           /\ Changes(s, {t \in Table : owner[t] = Proj(s)}, Rest(s))
           /\ UNCHANGED <<live, versions, migrations, lock, hour>>
  <2>1. PICK tables \in SUBSET Table : tables = {t \in Table : owner[t] = p}
    OBVIOUS
  <2>2. /\ owner' = [t \in Table |-> IF owner[t] = p THEN None ELSE owner[t]]
        /\ Changes(s, tables, Rest(s))
    BY <1>2, <1>4, <2>1
  <2>3. DatabaseTyped' /\ HistoryIsOwn' /\ VersionsKept /\ StaysIn(p, tables)
    BY <1>4, <2>1, <2>2 DEF CommandInv, TypeInv, DatabaseTyped, HistoryIsOwn, VersionsKept,
                            StaysIn, VersionsOf
  <2>4. ASSUME cmd[s].undisturbed, NEW todo, todo = Tail(cmd[s].todo)
        PROVE  ClearedUpTo(todo, p)'
    <3>1. VersionsOf(p)' = VersionsOf(p)
      BY <1>4 DEF VersionsOf
    <3>2. \A t \in Table : owner'[t] # p
      BY <2>2, NothingAssumption
    <3>3. QED
      BY <1>1, <1>2, <1>4, <2>4, <3>1, <3>2, ClearedNext
  <2>5. QED
    BY <1>1, <1>2, <1>3, <2>2, <2>3, <2>4, RestKeepsInv
<1>5. CASE /\ Changes(s, {}, [Rest(s) EXCEPT !.undisturbed = FALSE])
           /\ UNCHANGED <<database, hour>>
  BY <1>1, <1>5, IgnoredError
<1>6. QED
  BY <1>4, <1>5 DEF DeleteOwnership, Ignoring

LEMMA ReportKeepsInv ==
  ASSUME CommandInv, NEW s \in Session, Report(s)
  PROVE  CommandInv'
<1>1. At(s, "Report") /\ "Report" \in DestroyOps
  BY DEF Report, DestroyOps
<1>2. PICK p \in Project : Proj(s) = p
  BY <1>1, AtOp
<1>3. cmd[s].kind = "destroy"
  BY <1>1, AtOp
<1>4. Changes(s, {}, Rest(s)) /\ UNCHANGED <<live, owner, versions, migrations, lock, hour>>
  BY DEF Report, database
<1>5. DatabaseTyped' /\ HistoryIsOwn' /\ VersionsKept /\ StaysIn(p, {})
  BY <1>4 DEF CommandInv, TypeInv, DatabaseTyped, HistoryIsOwn, VersionsKept,
              StaysIn, VersionsOf
<1>6. ASSUME cmd[s].undisturbed, NEW todo, todo = Tail(cmd[s].todo)
      PROVE  ClearedUpTo(todo, p)'
  <2>1. VersionsOf(p)' = VersionsOf(p)
    BY <1>4 DEF VersionsOf
  <2>2. QED
    BY <1>1, <1>2, <1>4, <1>6, <2>1, ClearedNext
<1>7. QED
  BY <1>1, <1>2, <1>3, <1>4, <1>5, <1>6, RestKeepsInv

-----------------------------------------------------------------------------
(* The commands that end, and the hours that pass.                         *)

LEMMA UntouchedSound ==
  ASSUME CommandInv, NEW u \in Session, Busy(u), cmd'[u] = cmd[u],
         live' = live, owner' = owner, migrations' = migrations,
         \A r \in Project : lock'[r] \in {lock[r], None},
         VersionsKept, \A r \in Project : VersionsOf(r)' = VersionsOf(r)
  PROVE  Sound(cmd[u])'
<1>1. Sound(cmd[u]) /\ cmd[u] \in Command
  BY InACommand DEF CommandInv
<1>2. PICK r \in Project : Proj(u) = r
  BY <1>1 DEF Proj, Command
<1>3. SameCommand(u)
  BY DEF SameCommand, Busy
<1>4. cmd[u].kind = "destroy" => cmd[u].todo \in Seq(DestroyStep)
  BY <1>1 DEF Sound, Shaped
<1>5. StillCleared(r)
  BY DEF StillCleared
<1>6. \A t \in Table : LiveOf(r)'[t] = LiveOf(r)[t]
  BY DEF LiveOf
<1>7. QED
  BY <1>1, <1>2, <1>3, <1>4, <1>5, <1>6, OtherSound

(* Decline, Fail and Crash: at most the lock goes with the command.        *)
LEMMA EndKeepsInv ==
  ASSUME CommandInv, NEW s \in Session, cmd' = [cmd EXCEPT ![s] = NoCommand],
         UNCHANGED <<live, owner, versions, migrations, hour>>,
         lock' \in [Project -> Session \cup {None}],
         \A r \in Project : lock'[r] \in {lock[r], None}
  PROVE  CommandInv'
<1>1. TypeInv' /\ HistoryIsOwn' /\ VersionsKept /\ \A r \in Project : VersionsOf(r)' = VersionsOf(r)
  BY DEF CommandInv, TypeInv, DatabaseTyped, HistoryIsOwn, VersionsKept, VersionsOf
<1>2. ASSUME NEW u \in Session, Busy(u)'  PROVE Sound(cmd[u])'
  <2>1. cmd'[u] = cmd[u] /\ Busy(u)
    BY <1>2 DEF CommandInv, TypeInv, Busy
  <2>2. QED
    BY <1>1, <2>1, UntouchedSound
<1>3. QED
  BY <1>1, <1>2 DEF CommandInv

LEMMA FaultKeepsInv ==
  ASSUME CommandInv, NEW s \in Session, Decline(s) \/ Fail(s) \/ Crash(s)
  PROVE  CommandInv'
<1>1. lock \in [Project -> Session \cup {None}]
  BY DEF CommandInv, TypeInv, DatabaseTyped
<1>2. CASE Decline(s) \/ Crash(s)
  BY <1>1, <1>2, EndKeepsInv DEF Decline, Crash, database
<1>3. CASE Fail(s)
  <2>1. /\ lock' \in [Project -> Session \cup {None}]
        /\ \A r \in Project : lock'[r] \in {lock[r], None}
    BY <1>1, <1>3 DEF Fail
  <2>2. QED
    BY <1>3, <2>1, EndKeepsInv DEF Fail
<1>4. QED
  BY <1>2, <1>3

LEMMA TickKeepsInv ==
  ASSUME CommandInv, Tick
  PROVE  CommandInv'
<1>1. versions \in Seq(VersionRow \cup {Absent})
  BY DEF CommandInv, TypeInv, DatabaseTyped
<1>2. /\ DOMAIN versions = 1 .. Len(versions) /\ Len(versions) \in Nat
      /\ \A v \in DOMAIN versions : versions[v] \in VersionRow \cup {Absent}
  BY <1>1, LenProperties, ElementOfSeq
<1>3. DEFINE aged(v) == IF versions[v] = Absent THEN Absent
                        ELSE [versions[v] EXCEPT !.recent = FALSE]
<1>4. versions' = [v \in DOMAIN versions |-> aged(v)]
  BY DEF Tick
<1>5. ASSUME NEW v \in DOMAIN versions
      PROVE  /\ versions[v] = Absent => aged(v) = Absent
             /\ versions[v] # Absent =>
                  /\ aged(v) \in VersionRow /\ aged(v).project = versions[v].project
                  /\ aged(v).spec = versions[v].spec
  BY <1>2 DEF VersionRow
<1> HIDE DEF aged
<1>6. \A v \in DOMAIN versions : aged(v) = Absent <=> versions[v] = Absent
  BY <1>5, NothingAssumption
<1>7. versions' \in Seq(VersionRow \cup {Absent})
  <2>1. \A v \in DOMAIN versions : aged(v) \in VersionRow \cup {Absent}
    BY <1>5
  <2>2. QED
    BY <1>2, <1>4, <2>1, SeqDef
<1>8. /\ DOMAIN versions' = DOMAIN versions
      /\ \A v \in DOMAIN versions :
           /\ versions'[v] = Absent <=> versions[v] = Absent
           /\ versions[v] # Absent =>
                /\ versions'[v].project = versions[v].project
                /\ versions'[v].spec = versions[v].spec
  BY <1>4, <1>5, <1>6
<1>9. hour' \in 0 .. Day - 1
  BY CommandsAssumption DEF Tick, CommandInv, TypeInv, DatabaseTyped
<1>10. TypeInv'
  BY <1>7, <1>8, <1>9 DEF Tick, CommandInv, TypeInv, DatabaseTyped
<1>11. HistoryIsOwn'
  BY <1>8 DEF CommandInv, HistoryIsOwn
<1>12. VersionsKept /\ \A r \in Project : VersionsOf(r)' = VersionsOf(r)
  BY <1>8 DEF VersionsKept, VersionsOf
<1>13. ASSUME NEW u \in Session, Busy(u)'  PROVE Sound(cmd[u])'
  BY <1>12, <1>13, UntouchedSound DEF Tick, Busy
<1>14. QED
  BY <1>10, <1>11, <1>13 DEF CommandInv

-----------------------------------------------------------------------------
(* The commands that are given.                                            *)

LEMMA GivenKeepsInv ==
  ASSUME CommandInv, NEW s \in Session, NEW c \in Command, Sound(c),
         cmd' = [cmd EXCEPT ![s] = c], UNCHANGED <<database, hour>>
  PROVE  CommandInv'
<1>1. UNCHANGED <<live, owner, versions, migrations, lock, hour>>
  BY DEF database
<1>2. TypeInv' /\ HistoryIsOwn' /\ VersionsKept /\ \A r \in Project : VersionsOf(r)' = VersionsOf(r)
  BY <1>1 DEF CommandInv, TypeInv, DatabaseTyped, HistoryIsOwn, VersionsKept, VersionsOf
<1>3. ASSUME NEW u \in Session \ {s}, Busy(u)'  PROVE Sound(cmd[u])'
  <2>1. cmd'[u] = cmd[u] /\ Busy(u)
    BY <1>3 DEF CommandInv, TypeInv, Busy
  <2>2. QED
    BY <1>1, <1>2, <2>1, UntouchedSound
<1>4. Sound(cmd[s])'
  <2>1. cmd'[s] = c
    BY DEF CommandInv, TypeInv
  <2>2. QED
    BY <1>1, <2>1 DEF Sound, Shaped, Remembers, Known, KeepsRows, OnCourse, Cleared,
                      ClearedUpTo, LiveOf, VersionsOf
<1>5. \A u \in Session : Busy(u)' => Sound(cmd[u])'
  BY <1>3, <1>4
<1>6. QED
  BY <1>2, <1>5 DEF CommandInv

LEMMA LatestIsNewest ==
  ASSUME TypeInv, NEW p \in Project
  PROVE  /\ Latest(p) \in Nat \cup {None}
         /\ Known(Latest(p), p)
         /\ VersionsOf(p) \subseteq Nat
         /\ VersionsOf(p) # {} =>
              Latest(p) \in VersionsOf(p) /\ \A v \in VersionsOf(p) : v <= Latest(p)
<1>1. DOMAIN versions = 1 .. Len(versions) /\ Len(versions) \in Nat
  BY LenProperties DEF TypeInv, DatabaseTyped
<1>2. VersionsOf(p) \in SUBSET (1 .. Len(versions))
  BY <1>1 DEF VersionsOf
<1>3. CASE VersionsOf(p) = {}
  BY <1>3 DEF Latest, Known
<1>4. CASE VersionsOf(p) # {}
  <2>1. \E v \in VersionsOf(p) : \A w \in VersionsOf(p) : w <= v
    BY <1>1, <1>2, <1>4, GreatestExists
  <2>2. Latest(p) \in VersionsOf(p) /\ \A v \in VersionsOf(p) : v <= Latest(p)
    BY <1>4, <2>1 DEF Latest
  <2>3. QED
    BY <1>1, <1>2, <2>2 DEF Known, VersionsOf
<1>5. QED
  BY <1>2, <1>3, <1>4

(* Every plan is a sound run to a DAG of its project; without a flag, a    *)
(* rollback has one that drops only what the target does not have.         *)
LEMMA PlannedSound ==
  ASSUME CommandInv, NEW p \in Project, NEW spec \in Files[p],
         NEW kind \in {"apply", "promote", "rollback"}, NEW flag,
         NEW goal \in Nat \cup {None},
         goal # None => goal \in DOMAIN versions /\ versions[goal].spec = spec,
         NEW plan, plan = PlanAgainstLive(spec, p),
         kind = "rollback" => flag # "none" \/ Rebuilt(plan) = {}
  PROVE  LET c == NewRun(p, kind, spec, goal, plan, flag) IN c \in Command /\ Sound(c)
<1>1. spec \in DagState /\ LiveOf(p) \in DagState
  BY CommandsAssumption, LiveTyped DEF CommandInv
<1>2. /\ plan \in Seq(ChangingStep) /\ RecordsSnapshot(plan) /\ UnlocksLast(plan)
      /\ \A t \in Table : FitsTable(plan, spec, LiveOf(p), t)
  BY <1>1, PlannerAssumption DEF PlanAgainstLive
<1>3. PICK c : c = NewRun(p, kind, spec, goal, plan, flag)
  OBVIOUS
<1>4. /\ c.phase = "planned" /\ c.kind = kind /\ c.project = p /\ c.spec = spec
      /\ c.goal = goal /\ c.from = Latest(p) /\ c.todo = plan /\ c.rebuilt = Rebuilt(plan)
      /\ c.flagged = (flag # "none") /\ c.row = FALSE /\ c.new = None /\ c.undisturbed
  BY <1>3 DEF NewRun
<1>5. c \in Command
  <2>1. plan \in Seq(ChangingStep \cup DestroyStep)
    BY <1>2, SeqDef
  <2>2. Rebuilt(plan) \subseteq Table
    BY DEF Rebuilt
  <2>3. Latest(p) \in Nat \cup {None}
    BY LatestIsNewest DEF CommandInv
  <2>4. (flag # "none") \in BOOLEAN
    OBVIOUS
  <2>5. QED
    BY <1>1, <1>3, <2>1, <2>2, <2>3, <2>4 DEF NewRun, Command
<1>6. Shaped(c)
  <2>1. plan # <<>>
    BY <1>2 DEF RecordsSnapshot
  <2>2. QED
    BY <1>2, <1>4, <2>1 DEF Shaped
<1>7. Remembers(c)
  <2>1. Known(Latest(p), p)
    BY LatestIsNewest DEF CommandInv
  <2>2. QED
    BY <1>4, <2>1 DEF Remembers, Known
<1>8. KeepsRows(c)
  <2> SUFFICES ASSUME kind = "rollback", flag = "none", NEW i \in DOMAIN plan,
                      plan[i].op = "DropStreamTable"
               PROVE  spec[plan[i].table] = Absent
    BY <1>4 DEF KeepsRows
  <2>1. plan[i] \in ChangingStep
    BY <1>2, ElementOfSeq, LenProperties
  <2>2. PICK x \in Table : x = plan[i].table
    BY <2>1 DEF ChangingStep, TableChanges
  <2>3. ~\E j \in DOMAIN plan : plan[j].table = x /\ plan[j].op = "CreateStreamTable"
    BY <2>2 DEF Rebuilt, StepsOf
  <2>4. FitsTable(plan, spec, LiveOf(p), x)
    BY <1>2
  <2>5. QED
    BY <2>2, <2>3, <2>4 DEF FitsTable, Creates, Alters
<1>9. OnCourse(c) /\ Cleared(c)
  BY <1>2, <1>4 DEF OnCourse, Cleared
<1>10. QED
  BY <1>3, <1>5, <1>6, <1>7, <1>8, <1>9 DEF Sound

LEMMA PlanFilesKeepsInv ==
  ASSUME CommandInv, NEW s \in Session, PlanFiles(s)
  PROVE  CommandInv'
<1>1. PICK p \in Project : \E kind \in Ways[p], spec \in Files[p] :
        cmd' = [cmd EXCEPT ![s] =
                  NewRun(p, kind, spec, None, PlanAgainstLive(spec, p), "none")]
  BY DEF PlanFiles
<1>2. PICK kind \in Ways[p], spec \in Files[p] :
        cmd' = [cmd EXCEPT ![s] =
                  NewRun(p, kind, spec, None, PlanAgainstLive(spec, p), "none")]
  BY <1>1
<1>3. PICK c : c = NewRun(p, kind, spec, None, PlanAgainstLive(spec, p), "none")
  OBVIOUS
<1>4. c \in Command /\ Sound(c)
  <2>1. kind \in {"apply", "promote", "rollback"} /\ kind # "rollback"
    BY CommandsAssumption
  <2>2. QED
    BY <1>3, <2>1, PlannedSound
<1>5. cmd' = [cmd EXCEPT ![s] = c] /\ UNCHANGED <<database, hour>>
  BY <1>2, <1>3 DEF PlanFiles
<1>6. QED
  BY <1>4, <1>5, GivenKeepsInv

LEMMA PlanRollbackKeepsInv ==
  ASSUME CommandInv, NEW s \in Session, PlanRollback(s)
  PROVE  CommandInv'
<1>1. PICK p \in Project, flag \in {"none", "within-window", "accept-data-loss"} :
        \E v \in Targets(p) :
          /\ RollbackAllowed(PlanAgainstLive(RecordedSpec(v), p), p, flag)
          /\ cmd' = [cmd EXCEPT ![s] =
                       NewRun(p, "rollback", RecordedSpec(v), v,
                              PlanAgainstLive(RecordedSpec(v), p), flag)]
  BY DEF PlanRollback
<1>2. PICK v \in Targets(p) :
          /\ RollbackAllowed(PlanAgainstLive(RecordedSpec(v), p), p, flag)
          /\ cmd' = [cmd EXCEPT ![s] =
                       NewRun(p, "rollback", RecordedSpec(v), v,
                              PlanAgainstLive(RecordedSpec(v), p), flag)]
  BY <1>1
<1>3. PICK spec : spec = RecordedSpec(v)
  OBVIOUS
<1>4. PICK plan : plan = PlanAgainstLive(spec, p)
  OBVIOUS
<1>5. v \in VersionsOf(p) /\ v \in Nat
  BY LatestIsNewest DEF Targets, CommandInv
<1>6. spec \in Files[p] /\ v \in DOMAIN versions /\ versions[v].spec = spec
  BY <1>3, <1>5 DEF VersionsOf, RecordedSpec, CommandInv, HistoryIsOwn
<1>7. flag # "none" \/ Rebuilt(plan) = {}
  BY <1>2, <1>3, <1>4 DEF RollbackAllowed
<1>8. PICK c : c = NewRun(p, "rollback", spec, v, plan, flag)
  OBVIOUS
<1>9. c \in Command /\ Sound(c)
  BY <1>4, <1>5, <1>6, <1>7, <1>8, PlannedSound
<1>10. cmd' = [cmd EXCEPT ![s] = c] /\ UNCHANGED <<database, hour>>
  BY <1>2, <1>3, <1>4, <1>8 DEF PlanRollback
<1>11. QED
  BY <1>9, <1>10, GivenKeepsInv

(* The statements of a destroy: its tables first, then the four deletions  *)
(* and the report.                                                         *)
LEMMA DestroyStepsAre ==
  ASSUME TypeInv, NEW p \in Project
  PROVE  LET drops == DropOrder(Existing(LiveOf(p))) IN
         /\ Len(drops) \in Nat
         /\ DestroySteps(p) \in Seq(DestroyStep)
         /\ DOMAIN DestroySteps(p) = 1 .. Len(drops) + 5
         /\ Len(DestroySteps(p)) = Len(drops) + 5
         /\ \A i \in 1 .. Len(drops) :
              /\ DestroySteps(p)[i].op = "Drop"
              /\ DestroySteps(p)[i].table \in Table
              /\ owner[DestroySteps(p)[i].table] = p
         /\ DestroySteps(p)[Len(drops) + 1].op = "DeleteLocks"
         /\ DestroySteps(p)[Len(drops) + 2].op = "DeleteMigrations"
         /\ DestroySteps(p)[Len(drops) + 3].op = "DeleteVersions"
         /\ DestroySteps(p)[Len(drops) + 4].op = "DeleteOwnership"
         /\ DestroySteps(p)[Len(drops) + 5].op = "Report"
<1>1. PICK drops : drops = DropOrder(Existing(LiveOf(p)))
  OBVIOUS
<1>2. Existing(LiveOf(p)) \in SUBSET Table /\ \A t \in Existing(LiveOf(p)) : owner[t] = p
  BY DEF Existing, LiveOf
<1>3. drops \in Seq(Existing(LiveOf(p)))
  BY <1>1, <1>2, DropOrderAssumption
<1>4. /\ Len(drops) \in Nat /\ DOMAIN drops = 1 .. Len(drops)
      /\ \A i \in DOMAIN drops : drops[i] \in Table /\ owner[drops[i]] = p
  <2>1. \A i \in DOMAIN drops : drops[i] \in Existing(LiveOf(p))
    BY <1>3, ElementOfSeq, LenProperties
  <2>2. QED
    BY <1>2, <1>3, <2>1, LenProperties
<1>5. Drops(p) = [i \in DOMAIN drops |-> DoOn("Drop", drops[i])]
  BY <1>1 DEF Drops
<1>6. /\ Drops(p) \in Seq(DestroyStep) /\ Len(Drops(p)) = Len(drops)
      /\ \A i \in DOMAIN drops : Drops(p)[i].op = "Drop" /\ Drops(p)[i].table = drops[i]
  <2>1. \A i \in DOMAIN drops : DoOn("Drop", drops[i]) \in DestroyStep
    BY <1>4 DEF DoOn, DestroyStep, DestroyOps
  <2>2. Drops(p) \in Seq(DestroyStep)
    BY <1>4, <1>5, <2>1, SeqDef
  <2>3. DOMAIN Drops(p) = 1 .. Len(drops)
    BY <1>4, <1>5
  <2>4. Len(Drops(p)) = Len(drops)
    BY <1>4, <2>2, <2>3, LenProperties
  <2>5. QED
    BY <1>5, <2>2, <2>4 DEF DoOn
<1>7. PICK rows : rows = <<Do("DeleteLocks"), Do("DeleteMigrations"), Do("DeleteVersions"),
                           Do("DeleteOwnership"), Do("Report")>>
  OBVIOUS
<1>8. /\ rows \in Seq(DestroyStep) /\ Len(rows) = 5
      /\ rows[1].op = "DeleteLocks" /\ rows[2].op = "DeleteMigrations"
      /\ rows[3].op = "DeleteVersions" /\ rows[4].op = "DeleteOwnership"
      /\ rows[5].op = "Report"
  <2>1. \A op \in DestroyOps \ {"Drop"} : Do(op) \in DestroyStep /\ Do(op).op = op
    BY DEF Do, DestroyStep, DestroyOps
  <2>2. /\ Do("DeleteLocks") \in DestroyStep /\ Do("DeleteMigrations") \in DestroyStep
        /\ Do("DeleteVersions") \in DestroyStep /\ Do("DeleteOwnership") \in DestroyStep
        /\ Do("Report") \in DestroyStep
    BY <2>1 DEF DestroyOps
  <2>3. rows \in Seq(DestroyStep) /\ Len(rows) = 5
    BY <1>7, <2>2
  <2>4. QED
    BY <1>7, <2>3 DEF Do
<1>9. /\ DestroySteps(p) \in Seq(DestroyStep)
      /\ Len(DestroySteps(p)) = Len(drops) + 5
      /\ \A i \in 1 .. Len(drops) + 5 : DestroySteps(p)[i] =
           IF i <= Len(drops) THEN Drops(p)[i] ELSE rows[i - Len(drops)]
  <2>1. DestroySteps(p) = Drops(p) \o rows
    BY <1>7 DEF DestroySteps
  <2>2. QED
    <3>1. /\ Drops(p) \o rows \in Seq(DestroyStep)
          /\ Len(Drops(p) \o rows) = Len(Drops(p)) + Len(rows)
          /\ \A i \in 1 .. Len(Drops(p)) + Len(rows) : (Drops(p) \o rows)[i] =
               IF i <= Len(Drops(p)) THEN Drops(p)[i] ELSE rows[i - Len(Drops(p))]
      <4>1. Drops(p) \in Seq(DestroyStep) /\ rows \in Seq(DestroyStep)
        BY <1>6, <1>8
      <4>2. QED
        BY <4>1, ConcatProperties, Zenon
    <3>2. Len(Drops(p)) = Len(drops) /\ Len(rows) = 5
      BY <1>6, <1>8
    <3>3. QED
      BY <2>1, <3>1, <3>2
<1>10. DOMAIN DestroySteps(p) = 1 .. Len(drops) + 5
  BY <1>9, LenProperties
<1>11. /\ DestroySteps(p)[Len(drops) + 1] = rows[1]
       /\ DestroySteps(p)[Len(drops) + 2] = rows[2]
       /\ DestroySteps(p)[Len(drops) + 3] = rows[3]
       /\ DestroySteps(p)[Len(drops) + 4] = rows[4]
       /\ DestroySteps(p)[Len(drops) + 5] = rows[5]
  <2>1. ASSUME NEW k \in 1 .. 5
        PROVE  DestroySteps(p)[Len(drops) + k] = rows[k]
    <3>1. /\ Len(drops) + k \in 1 .. Len(drops) + 5
          /\ ~(Len(drops) + k <= Len(drops)) /\ Len(drops) + k - Len(drops) = k
      BY <1>4
    <3>2. QED
      BY <1>9, <3>1
  <2>2. QED
    BY <2>1
<1>12. \A i \in 1 .. Len(drops) :
         /\ DestroySteps(p)[i].op = "Drop" /\ DestroySteps(p)[i].table \in Table
         /\ owner[DestroySteps(p)[i].table] = p
  <2>1. \A i \in 1 .. Len(drops) : DestroySteps(p)[i] = Drops(p)[i]
    BY <1>4, <1>9
  <2>2. QED
    BY <1>4, <1>6, <2>1
<1>13. QED
  BY <1>1, <1>4, <1>8, <1>9, <1>10, <1>11, <1>12

LEMMA PlanDestroyKeepsInv ==
  ASSUME CommandInv, NEW s \in Session, PlanDestroy(s)
  PROVE  CommandInv'
<1>1. PICK p \in Project :
        cmd' = [cmd EXCEPT ![s] =
                  [NewRun(p, "destroy", EmptyDag, None, <<>>, "none")
                     EXCEPT !.phase = "running", !.todo = DestroySteps(p)]]
  BY DEF PlanDestroy
<1>2. PICK c : c = [NewRun(p, "destroy", EmptyDag, None, <<>>, "none")
                      EXCEPT !.phase = "running", !.todo = DestroySteps(p)]
  OBVIOUS
<1>3. PICK todo : todo = DestroySteps(p)
  OBVIOUS
<1>4. PICK n : n = Len(DropOrder(Existing(LiveOf(p))))
  OBVIOUS
<1>5. /\ n \in Nat /\ todo \in Seq(DestroyStep)
      /\ DOMAIN todo = 1 .. n + 5 /\ Len(todo) = n + 5
      /\ \A i \in 1 .. n : /\ todo[i].op = "Drop" /\ todo[i].table \in Table
                           /\ owner[todo[i].table] = p
      /\ todo[n + 1].op = "DeleteLocks" /\ todo[n + 2].op = "DeleteMigrations"
      /\ todo[n + 3].op = "DeleteVersions" /\ todo[n + 4].op = "DeleteOwnership"
      /\ todo[n + 5].op = "Report"
  BY <1>3, <1>4, DestroyStepsAre DEF CommandInv
<1>6. \A i \in DOMAIN todo : i \in 1 .. n \/ i \in {n + 1, n + 2, n + 3, n + 4, n + 5}
  BY <1>5
<1>7. /\ c.phase = "running" /\ c.kind = "destroy" /\ c.project = p /\ c.spec = EmptyDag
      /\ c.goal = None /\ c.from = Latest(p) /\ c.todo = todo /\ c.rebuilt = Rebuilt(<<>>)
      /\ c.new = None
      /\ c \in Command
  <2>1. todo \in Seq(ChangingStep \cup DestroyStep)
    BY <1>5, SeqMonotonic
  <2>2. EmptyDag \in DagState
    BY DEF EmptyDag, DagState
  <2>3. Rebuilt(<<>>) \subseteq Table
    BY DEF Rebuilt
  <2>4. Latest(p) \in Nat \cup {None}
    BY LatestIsNewest DEF CommandInv
  <2>5. QED
    BY <1>2, <1>3, <2>1, <2>2, <2>3, <2>4 DEF NewRun, Command
<1>8. Shaped(c)
  <2>1. \A i \in DOMAIN todo : todo[i].op = "Report" <=> i = Len(todo)
    BY <1>5, <1>6
  <2>2. Before(todo, "DeleteMigrations", "DeleteVersions")
    BY <1>5, <1>6 DEF Before
  <2>3. Before(todo, "Drop", "DeleteOwnership")
    BY <1>5, <1>6 DEF Before
  <2>4. todo # <<>>
    BY <1>5, EmptySeq
  <2>5. QED
    BY <1>5, <1>7, <2>1, <2>2, <2>3, <2>4 DEF Shaped, DestroyOrdered
<1>9. Remembers(c)
  <2>1. Known(Latest(p), p)
    BY LatestIsNewest DEF CommandInv
  <2>2. QED
    BY <1>7, <2>1 DEF Remembers, Known
<1>10. KeepsRows(c) /\ OnCourse(c)
  BY <1>7 DEF KeepsRows, OnCourse
<1>11. Cleared(c)
  <2>1. /\ Remains(todo, "DeleteLocks") /\ Remains(todo, "DeleteMigrations")
        /\ Remains(todo, "DeleteVersions") /\ Remains(todo, "DeleteOwnership")
    <3>1. {n + 1, n + 2, n + 3, n + 4} \subseteq DOMAIN todo
      BY <1>5
    <3>2. QED
      BY <1>5, <3>1 DEF Remains
  <2>2. \A i \in DOMAIN todo : todo[i].op = "Drop" => owner[todo[i].table] = p
    BY <1>5, <1>6
  <2>3. QED
    BY <1>7, <2>1, <2>2 DEF Cleared, ClearedUpTo
<1>12. Sound(c)
  BY <1>8, <1>9, <1>10, <1>11 DEF Sound
<1>13. cmd' = [cmd EXCEPT ![s] = c] /\ UNCHANGED <<database, hour>>
  BY <1>1, <1>2 DEF PlanDestroy
<1>14. QED
  BY <1>7, <1>12, <1>13, GivenKeepsInv

-----------------------------------------------------------------------------
(* The invariant.                                                          *)

LEMMA InitInv == Init => CommandInv
<1> SUFFICES ASSUME Init  PROVE CommandInv
  OBVIOUS
<1>1. DatabaseTyped
  <2>1. EmptyDag \in DagState
    BY DEF EmptyDag, DagState
  <2>2. versions \in Seq(VersionRow \cup {Absent}) /\ DOMAIN versions = {}
    BY EmptySeq, LenProperties DEF Init
  <2>3. QED
    BY <2>1, <2>2, CommandsAssumption DEF Init, DatabaseTyped
<1>2. cmd \in [Session -> Command \cup {NoCommand}] /\ \A s \in Session : ~Busy(s)
  BY DEF Init, Busy
<1>3. HistoryIsOwn
  BY DEF Init, HistoryIsOwn
<1>4. QED
  BY <1>1, <1>2, <1>3 DEF CommandInv, TypeInv

LEMMA NextInv == CommandInv /\ [Next]_vars => CommandInv'
<1> SUFFICES ASSUME CommandInv, [Next]_vars  PROVE CommandInv'
  OBVIOUS
<1>1. CASE Tick
  BY <1>1, TickKeepsInv
<1>2. ASSUME NEW s \in Session, PlanFiles(s) \/ PlanRollback(s) \/ PlanDestroy(s)
      PROVE  CommandInv'
  BY <1>2, PlanFilesKeepsInv, PlanRollbackKeepsInv, PlanDestroyKeepsInv
<1>3. ASSUME NEW s \in Session, Decline(s) \/ Fail(s) \/ Crash(s)  PROVE CommandInv'
  BY <1>3, FaultKeepsInv
<1>4. ASSUME NEW s \in Session, Execute(s)  PROVE CommandInv'
  BY <1>4, BeginKeepsInv, LockDagKeepsInv, TableStepKeepsInv, RecordSnapshotKeepsInv,
     UnlockDagKeepsInv, DropKeepsInv, DeleteLocksKeepsInv, DeleteMigrationsKeepsInv,
     DeleteVersionsKeepsInv, DeleteOwnershipKeepsInv, ReportKeepsInv DEF Execute
<1>5. CASE UNCHANGED vars
  <2>1. UNCHANGED <<live, owner, versions, migrations, lock, hour, cmd>>
    BY <1>5 DEF vars, database
  <2>2. TypeInv' /\ HistoryIsOwn' /\ VersionsKept
        /\ \A r \in Project : VersionsOf(r)' = VersionsOf(r)
    BY <2>1 DEF CommandInv, TypeInv, DatabaseTyped, HistoryIsOwn, VersionsKept, VersionsOf
  <2>3. ASSUME NEW u \in Session, Busy(u)'  PROVE Sound(cmd[u])'
    BY <2>1, <2>2, <2>3, UntouchedSound DEF Busy
  <2>4. QED
    BY <2>2, <2>3 DEF CommandInv
<1>6. QED
  BY <1>1, <1>2, <1>3, <1>4, <1>5 DEF Next

LEMMA CommandInvariant == Spec => []CommandInv
<1>1. QED
  BY InitInv, NextInv, PTL DEF Spec

-----------------------------------------------------------------------------
(* What follows from the invariant.                                        *)

(* The rows, owners, locks and commands are what they should be, and the   *)
(* migrations refer to versions that exist.                                *)
THEOREM CommandsAreTyped == Spec => []TypeOK
<1>1. CommandInv => TypeOK
  <2> SUFFICES ASSUME CommandInv  PROVE TypeOK
    OBVIOUS
  <2>1. \A v \in DOMAIN versions : versions[v] \in VersionRow \cup {Absent}
    BY LenProperties, ElementOfSeq DEF CommandInv, TypeInv, DatabaseTyped
  <2>2. \A v \in DOMAIN versions : versions[v] # Absent =>
          /\ versions[v].project \in Project /\ versions[v].spec \in DagState
          /\ versions[v].recent \in BOOLEAN
    BY <2>1 DEF VersionRow
  <2>3. ASSUME NEW s \in Session, cmd[s].phase = "running"  PROVE cmd[s].todo # <<>>
    BY <2>3, InACommand DEF CommandInv, Sound, Shaped
  <2>4. QED
    BY <2>2, <2>3 DEF TypeOK, CommandInv, TypeInv, DatabaseTyped
<1>2. QED
  BY <1>1, CommandInvariant, PTL

(* rollback.rs:116: no chain of applies, promotes, rollbacks and destroys  *)
(* records for a project a state that its files never described.           *)
THEOREM VersionsStayOwn == Spec => []HistoryIsOwn
<1>1. CommandInv => HistoryIsOwn
  BY DEF CommandInv
<1>2. QED
  BY <1>1, CommandInvariant, PTL

(* rollback.rs:13: without a flag, a rollback never drops a table that the *)
(* version it goes back to has.                                            *)
THEOREM SafeRollbackDropsNoRows == Spec => []UnflaggedRollbackKeepsRows
<1>1. CommandInv => UnflaggedRollbackKeepsRows
  <2> SUFFICES ASSUME CommandInv, NEW s \in Session, At(s, "DropStreamTable"),
                      cmd[s].kind = "rollback", ~cmd[s].flagged
               PROVE  cmd[s].spec[Now(s).table] = Absent
    BY DEF UnflaggedRollbackKeepsRows
  <2>1. /\ cmd[s] \in Command /\ Sound(cmd[s]) /\ cmd[s].todo # <<>>
        /\ Now(s) = cmd[s].todo[1] /\ Now(s).op = "DropStreamTable"
    BY AtOp
  <2>2. cmd[s].todo \in Seq(ChangingStep \cup DestroyStep)
    BY <2>1 DEF Command
  <2>3. 1 \in DOMAIN cmd[s].todo
    BY <2>1, <2>2, RestFacts
  <2>4. QED
    BY <2>1, <2>3 DEF Sound, KeepsRows
<1>2. QED
  BY <1>1, CommandInvariant, PTL

(* rollback.rs:132 (C1): whatever the planner's plan, the interleaving and *)
(* the faults, a run that nobody interfered with ends at its target.       *)
THEOREM RunsReachTheirTarget == Spec => []ReachesTarget
<1>1. CommandInv => ReachesTarget
  <2> SUFFICES ASSUME CommandInv, NEW s \in Session, At(s, "UnlockDag"),
                      cmd[s].undisturbed,
                      cmd[s].goal # None => versions[cmd[s].goal] # Absent,
                      NEW target,
                      target = IF cmd[s].goal = None THEN cmd[s].spec
                               ELSE versions[cmd[s].goal].spec
               PROVE  /\ Existing(LiveOf(Proj(s))) = Existing(target)
                      /\ \A t \in Existing(target) :
                           LiveOf(Proj(s))[t].query = target[t].query
    BY DEF ReachesTarget
  <2>1. PICK p \in Project : Proj(s) = p
    BY AtOp
  <2>2. /\ cmd[s] \in Command /\ Sound(cmd[s]) /\ cmd[s].todo # <<>>
        /\ cmd[s].kind # "destroy" /\ Now(s) \in ChangingStep
        /\ Now(s) = cmd[s].todo[1] /\ Now(s).op = "UnlockDag"
    BY AtOp DEF ChangingOps
  <2>3. target = cmd[s].spec
    BY <2>2 DEF Sound, Remembers
  <2>4. cmd[s].todo \in Seq(ChangingStep) /\ UnlocksLast(cmd[s].todo)
    BY <2>2 DEF Sound, Shaped
  <2>5. DOMAIN cmd[s].todo = {1}
    <3>1. /\ DOMAIN cmd[s].todo = 1 .. Len(cmd[s].todo)
          /\ Len(cmd[s].todo) \in Nat \ {0}
      BY <2>2, <2>4, RestFacts
    <3>2. 1 \in DOMAIN cmd[s].todo /\ cmd[s].todo[1].op = "UnlockDag"
      BY <2>2, <3>1
    <3>3. \A i \in DOMAIN cmd[s].todo : cmd[s].todo[i].op = "UnlockDag" => i = Len(cmd[s].todo)
      BY <2>4 DEF UnlocksLast
    <3>4. Len(cmd[s].todo) = 1
      BY <3>2, <3>3
    <3>5. QED
      BY <3>1, <3>4
  <2>6. Now(s).table \notin Table
    BY <2>2 DEF ChangingStep, TableChanges
  <2>7. ASSUME NEW t \in Table  PROVE SameQuery(target, LiveOf(p), t)
    <3>1. FitsTable(cmd[s].todo, target, LiveOf(p), t)
      BY <2>1, <2>2, <2>3 DEF Sound, OnCourse, Proj
    <3>2. {i \in DOMAIN cmd[s].todo : cmd[s].todo[i].table = t} = {}
      BY <2>2, <2>5, <2>6
    <3>3. QED
      BY <3>1, <3>2 DEF FitsTable
  <2>8. QED
    BY <2>1, <2>7 DEF SameQuery, Existing
<1>2. QED
  BY <1>1, CommandInvariant, PTL

(* destroy.rs:264: a destroy beside which no command of its project did    *)
(* anything, and none of whose statements failed, leaves nothing behind.   *)
THEOREM DestroyLeavesNothing == Spec => []DestroyIsComplete
<1>1. CommandInv => DestroyIsComplete
  <2> SUFFICES ASSUME CommandInv, NEW s \in Session, At(s, "Report"), cmd[s].undisturbed
               PROVE  /\ \A t \in Table : owner[t] # Proj(s)
                      /\ VersionsOf(Proj(s)) = {}
                      /\ lock[Proj(s)] = None
    BY DEF DestroyIsComplete
  <2>1. PICK p \in Project : Proj(s) = p
    BY AtOp
  <2>2. /\ Sound(cmd[s]) /\ cmd[s].todo # <<>> /\ cmd[s].kind = "destroy"
        /\ Now(s) = cmd[s].todo[1] /\ Now(s).op = "Report"
    BY AtOp DEF DestroyOps
  <2>3. cmd[s].todo \in Seq(DestroyStep) /\ DestroyOrdered(cmd[s].todo)
    BY <2>2 DEF Sound, Shaped
  <2>4. DOMAIN cmd[s].todo = {1}
    <3>1. /\ DOMAIN cmd[s].todo = 1 .. Len(cmd[s].todo)
          /\ Len(cmd[s].todo) \in Nat \ {0}
      BY <2>2, <2>3, RestFacts
    <3>2. 1 \in DOMAIN cmd[s].todo /\ cmd[s].todo[1].op = "Report"
      BY <2>2, <3>1
    <3>3. \A i \in DOMAIN cmd[s].todo : cmd[s].todo[i].op = "Report" => i = Len(cmd[s].todo)
      BY <2>3 DEF DestroyOrdered
    <3>4. Len(cmd[s].todo) = 1
      BY <3>2, <3>3
    <3>5. QED
      BY <3>1, <3>4
  <2>5. \A op \in DestroyOps \ {"Report"} : ~Remains(cmd[s].todo, op)
    BY <2>2, <2>4 DEF Remains
  <2>6. ClearedUpTo(cmd[s].todo, p)
    BY <2>1, <2>2 DEF Sound, Cleared, Proj
  <2>7. QED
    BY <2>1, <2>5, <2>6 DEF ClearedUpTo, DestroyOps
<1>2. QED
  BY <1>1, CommandInvariant, PTL

-----------------------------------------------------------------------------
(* What a step may never do.                                               *)

SessionStep(s) ==
  \/ PlanFiles(s) \/ PlanRollback(s) \/ PlanDestroy(s)
  \/ Decline(s) \/ Execute(s) \/ Fail(s) \/ Crash(s)

LEMMA ChangesLeave ==
  ASSUME TypeInv, NEW s \in Session, NEW u \in Session, u # s, Busy(u),
         NEW tables, NEW c, Changes(s, tables, c)
  PROVE  cmd'[u].phase = cmd[u].phase /\ cmd'[u].todo = cmd[u].todo
<1>1. cmd[u] \in Command
  BY InACommand
<1>2. cmd'[u] = [cmd[u] EXCEPT !.undisturbed = Undisturbed(u, s, tables)]
  BY DEF Changes
<1>3. QED
  BY <1>1, <1>2 DEF Command

(* Only a session's own step takes its command further.                    *)
LEMMA OthersLeave ==
  ASSUME CommandInv, NEW s \in Session, NEW u \in Session, u # s, Busy(u), SessionStep(s)
  PROVE  cmd'[u].phase = cmd[u].phase /\ cmd'[u].todo = cmd[u].todo
<1>1. TypeInv /\ cmd[u] \in Command
  BY InACommand DEF CommandInv
<1>2. CASE \E c : cmd' = [cmd EXCEPT ![s] = c]
  BY <1>1, <1>2 DEF TypeInv
<1>3. CASE \E tables, c : Changes(s, tables, c)
  BY <1>1, <1>3, ChangesLeave
<1>4. CASE cmd' = [x \in Session |->
                    CASE x = s -> Rest(s)
                      [] x # s /\ Busy(x) /\ Proj(x) = Proj(s) ->
                           [cmd[x] EXCEPT !.row = FALSE]
                      [] OTHER -> cmd[x]]
  <2>1. cmd'[u] = cmd[u] \/ cmd'[u] = [cmd[u] EXCEPT !.row = FALSE]
    BY <1>4
  <2>2. QED
    BY <1>1, <2>1 DEF Command
<1>5. CASE PlanFiles(s) \/ PlanRollback(s) \/ PlanDestroy(s) \/ Decline(s) \/ Fail(s) \/ Crash(s)
  BY <1>2, <1>5 DEF PlanFiles, PlanRollback, PlanDestroy, Decline, Fail, Crash
<1>6. CASE Begin(s) \/ LockDag(s) \/ TableStep(s) \/ RecordSnapshot(s) \/ UnlockDag(s) \/ Report(s)
  BY <1>3, <1>6 DEF Begin, LockDag, TableStep, RecordSnapshot, UnlockDag, Report
<1>7. CASE Drop(s) \/ DeleteLocks(s) \/ DeleteVersions(s) \/ DeleteOwnership(s)
  BY <1>3, <1>7 DEF Drop, DeleteLocks, DeleteVersions, DeleteOwnership, Ignoring
<1>8. CASE DeleteMigrations(s)
  BY <1>3, <1>4, <1>8 DEF DeleteMigrations, Ignoring
<1>9. QED
  BY <1>5, <1>6, <1>7, <1>8 DEF SessionStep, Execute

(* A statement of an undisturbed destroy touches its own project alone.    *)
LEMMA DestroyTouchesOwn ==
  ASSUME CommandInv, NEW s \in Session, NEW p \in Project, Proj(s) = p,
         cmd[s].kind = "destroy", cmd[s].undisturbed, cmd[s].phase = "running",
         Execute(s), NEW r \in Project \ {p}
  PROVE  LiveOf(r)' = LiveOf(r) /\ VersionsOf(r)' = VersionsOf(r)
<1> DEFINE Unchanged == live' = live /\ owner' = owner /\ versions' = versions
<1>1. CASE Unchanged
  BY <1>1 DEF LiveOf, VersionsOf
<1>2. ASSUME NEW op \in ChangingOps, At(s, op)  PROVE FALSE
  BY <1>2, AtOp
<1>3. ~(Begin(s) \/ LockDag(s) \/ TableStep(s) \/ RecordSnapshot(s) \/ UnlockDag(s))
  <2>1. ~Begin(s)
    BY DEF Begin
  <2>2. QED
    BY <1>2, <2>1 DEF LockDag, TableStep, RecordSnapshot, UnlockDag, ChangingOps,
      TableChanges
<1>4. CASE Drop(s)
  <2>1. At(s, "Drop")
    BY <1>4 DEF Drop
  <2>2. /\ Sound(cmd[s]) /\ cmd[s].todo # <<>> /\ Now(s) = cmd[s].todo[1]
        /\ Now(s).op = "Drop"
    BY <2>1, AtOp
  <2>3. cmd[s].todo \in Seq(DestroyStep) /\ ClearedUpTo(cmd[s].todo, p)
    BY <2>2 DEF Sound, Shaped, Cleared, Proj
  <2>4. 1 \in DOMAIN cmd[s].todo
    BY <2>2, <2>3, RestFacts
  <2>5. owner[Now(s).table] = p
    BY <2>2, <2>3, <2>4 DEF ClearedUpTo
  <2>6. CASE live' = DropTable(live, Now(s).table) /\ UNCHANGED <<owner, versions>>
    <3>1. \A t \in Table : owner[t] = r => live'[t] = live[t]
      BY <2>5, <2>6 DEF DropTable, CommandInv, TypeInv, DatabaseTyped, DagState
    <3>2. QED
      BY <2>6, <3>1 DEF LiveOf, VersionsOf
  <2>7. QED
    BY <1>1, <1>4, <2>6 DEF Drop, Ignoring, database
<1>5. CASE DeleteLocks(s) \/ DeleteMigrations(s) \/ Report(s)
  BY <1>1, <1>5 DEF DeleteLocks, DeleteMigrations, Report, Ignoring, database
<1>6. CASE DeleteVersions(s)
  <2>1. CASE versions' = [v \in DOMAIN versions |->
                            IF v \in VersionsOf(p) THEN Absent ELSE versions[v]]
             /\ UNCHANGED <<live, owner>>
    <3>1. VersionsOf(r)' = VersionsOf(r)
      <4>1. /\ DOMAIN versions' = DOMAIN versions
            /\ \A v \in DOMAIN versions :
                 versions'[v] = IF v \in VersionsOf(p) THEN Absent ELSE versions[v]
        BY <2>1
      <4>2. QED
        BY <4>1 DEF VersionsOf
    <3>2. QED
      BY <2>1, <3>1 DEF LiveOf
  <2>2. QED
    BY <1>1, <1>6, <2>1 DEF DeleteVersions, DeletedVersions, Ignoring, database
<1>7. CASE DeleteOwnership(s)
  <2>1. CASE owner' = [t \in Table |-> IF owner[t] = p THEN None ELSE owner[t]]
             /\ UNCHANGED <<live, versions>>
    BY <2>1, NothingAssumption DEF LiveOf, VersionsOf
  <2>2. QED
    BY <1>1, <1>7, <2>1 DEF DeleteOwnership, Ignoring, database
<1>8. QED
  BY <1>3, <1>4, <1>5, <1>6, <1>7 DEF Execute

(* destroy.rs:66 (C-06): a step of such a destroy leaves the tables and    *)
(* the history of every other project as they are.                         *)
THEOREM DestroyLeavesOthers == Spec => DestroyIsScoped
<1>1. ASSUME CommandInv, [Next]_vars, NEW s \in Session, NEW r \in Project,
             Steps(s), cmd[s].kind = "destroy", cmd[s].undisturbed, r # Proj(s)
      PROVE  LiveOf(r)' = LiveOf(r) /\ VersionsOf(r)' = VersionsOf(r)
  <2>1. /\ Busy(s) /\ cmd[s] \in Command /\ Sound(cmd[s]) /\ cmd[s].phase = "running"
        /\ cmd'[s].phase = "running" /\ cmd'[s].todo # cmd[s].todo
    BY <1>1, InACommand DEF Steps, CommandInv
  <2>2. PICK p \in Project : Proj(s) = p
    BY <2>1 DEF Command, Proj
  <2>3. cmd' # cmd
    BY <2>1
  <2>4. ~Tick /\ ~UNCHANGED vars
    BY <2>3 DEF Tick, vars
  <2>5. PICK u \in Session : SessionStep(u)
    BY <1>1, <2>4 DEF Next, SessionStep
  <2>6. u = s
    BY <1>1, <2>1, <2>5, OthersLeave
  <2>7. cmd \in [Session -> Command \cup {NoCommand}]
    BY <1>1 DEF CommandInv, TypeInv
  <2>8. cmd' # [cmd EXCEPT ![s] = NoCommand]
    BY <2>1, <2>7 DEF NoCommand
  <2>9. Execute(s)
    BY <1>1, <2>1, <2>5, <2>6, <2>8
       DEF SessionStep, PlanFiles, PlanRollback, PlanDestroy, Give, Decline, Fail, Crash
  <2>10. QED
    BY <1>1, <2>1, <2>2, <2>9, DestroyTouchesOwn
<1>2. CommandInv /\ [Next]_vars =>
        [\A s \in Session, p \in Project :
           Steps(s) /\ cmd[s].kind = "destroy" /\ cmd[s].undisturbed /\ p # Proj(s) =>
             LiveOf(p)' = LiveOf(p) /\ VersionsOf(p)' = VersionsOf(p)]_vars
  BY <1>1
<1>3. QED
  BY <1>2, CommandInvariant, PTL DEF Spec, DestroyIsScoped

(* Arithmetic of the clock.                                                *)
LEMMA Turns ==
  ASSUME NEW day \in Nat \ {0}, NEW r \in 0 .. day - 1, NEW x \in Int,
         x = r \/ x = r + day \/ x = r + 2 * day \/ x = r + 3 * day
  PROVE  x % day = r
<1>1. CASE x = r
  BY <1>1
<1>2. CASE x = r + day
  BY <1>2
<1>3. CASE x = r + 2 * day
  BY <1>3
<1>4. CASE x = r + 3 * day
  BY <1>4
<1>5. QED
  BY <1>1, <1>2, <1>3, <1>4

(* An hour of the window, counted from its start, comes before its end.    *)
LEMMA WindowArithmetic ==
  ASSUME Window # None, NEW h \in 0 .. Day - 1, InWindow(h)
  PROVE  (h + TzOffset - Window[1] + 2 * Day) % Day < (Window[2] - Window[1] + Day) % Day
<1>1. PICK from \in 0 .. Day - 1, to \in 0 .. Day - 1 : from = Window[1] /\ to = Window[2]
  BY CommandsAssumption
<1>2. Day \in Nat \ {0} /\ TzOffset \in 1 - Day .. Day - 1
  BY CommandsAssumption
<1>3. PICK x \in Int : x = h + TzOffset + Day
  BY <1>2
<1>4. PICK local : local = IF x < Day THEN x ELSE IF x < 2 * Day THEN x - Day ELSE x - 2 * Day
  OBVIOUS
<1>5. local \in 0 .. Day - 1 /\ (x = local \/ x = local + Day \/ x = local + 2 * Day)
  BY <1>2, <1>3, <1>4
<1>6. (h + TzOffset + Day) % Day = local
  BY <1>2, <1>3, <1>5, Turns
<1>7. IF from <= to THEN from <= local /\ local < to ELSE from <= local \/ local < to
  BY <1>1, <1>6 DEF InWindow
<1>8. PICK since : since = IF from <= local THEN local - from ELSE local - from + Day
  OBVIOUS
<1>9. since \in 0 .. Day - 1
  BY <1>2, <1>8, <1>5
<1>10. (h + TzOffset - from + 2 * Day) % Day = since
  <2>1. PICK y \in Int : y = h + TzOffset - from + 2 * Day
    BY <1>2
  <2>2. \/ y = since \/ y = since + Day \/ y = since + 2 * Day \/ y = since + 3 * Day
    BY <1>2, <1>3, <1>8, <1>5, <2>1
  <2>3. QED
    BY <1>2, <1>9, <2>1, <2>2, Turns
<1>11. PICK length : length = IF from <= to THEN to - from ELSE to - from + Day
  OBVIOUS
<1>12. length \in 0 .. Day - 1
  BY <1>2, <1>11
<1>13. (to - from + Day) % Day = length
  <2>1. PICK y \in Int : y = to - from + Day
    BY <1>2
  <2>2. y = length \/ y = length + Day
    BY <1>2, <1>11, <2>1
  <2>3. QED
    BY <1>2, <1>12, <2>1, <2>2, Turns
<1>14. since < length
  BY <1>2, <1>7, <1>8, <1>11, <1>5
<1>15. QED
  BY <1>1, <1>10, <1>13, <1>14

(* config.rs:137: whatever the window, the offset and the length of the    *)
(* day, an apply that rebuilds begins inside it.                           *)
THEOREM WindowIsKept ==
  ASSUME Window # None
  PROVE  Spec => RebuildsBeginInWindow
<1> DEFINE length == (Window[2] - Window[1] + Day) % Day
           since  == (hour + TzOffset - Window[1] + 2 * Day) % Day
<1>1. ASSUME CommandInv, [Next]_vars, NEW s \in Session,
             cmd[s].phase = "planned", cmd[s].kind = "apply", cmd[s].rebuilt # {},
             cmd'[s].phase = "running"
      PROVE  since < length
  <2>1. Busy(s) /\ cmd[s] \in Command
    BY <1>1, InACommand DEF CommandInv
  <2>2. cmd' # cmd
    BY <1>1
  <2>3. ~Tick /\ ~UNCHANGED vars
    BY <2>2 DEF Tick, vars
  <2>4. PICK u \in Session : SessionStep(u)
    BY <1>1, <2>3 DEF Next, SessionStep
  <2>5. u = s
    BY <1>1, <2>1, <2>4, OthersLeave
  <2>6. cmd \in [Session -> Command \cup {NoCommand}]
    BY <1>1 DEF CommandInv, TypeInv
  <2>7. cmd' # [cmd EXCEPT ![s] = NoCommand]
    BY <1>1, <2>6 DEF NoCommand
  <2>8. \A op : ~At(s, op)
    BY <1>1 DEF At
  <2>9. Begin(s)
    BY <1>1, <2>1, <2>4, <2>5, <2>7, <2>8
       DEF SessionStep, Execute, PlanFiles, PlanRollback, PlanDestroy, Give, Decline, Fail,
           Crash, LockDag, TableStep, RecordSnapshot, UnlockDag, Drop, DeleteLocks,
           DeleteMigrations, DeleteVersions, DeleteOwnership, Report
  <2>10. InWindow(hour)
    BY <1>1, <2>9 DEF Begin
  <2>11. hour \in 0 .. Day - 1
    BY <1>1 DEF CommandInv, TypeInv, DatabaseTyped
  <2>12. QED
    BY <2>10, <2>11, WindowArithmetic
<1>2. CommandInv /\ [Next]_vars =>
        [\A s \in Session :
           cmd[s].phase = "planned" /\ cmd[s].kind = "apply" /\ cmd[s].rebuilt # {} =>
             LET length_ == (Window[2] - Window[1] + Day) % Day
                 since_  == (hour + TzOffset - Window[1] + 2 * Day) % Day
             IN cmd[s]'.phase = "running" => since_ < length_]_vars
  BY <1>1
<1>3. QED
  BY <1>2, CommandInvariant, PTL DEF Spec, RebuildsBeginInWindow

=============================================================================
