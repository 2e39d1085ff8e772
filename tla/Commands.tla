------------------------------ MODULE Commands ------------------------------
(***************************************************************************)
(* The commands that change a database - apply, promote, rollback, destroy *)
(* - run by several sessions for several projects that share its tables,   *)
(* its version numbers and the ownership catalog.  A command reads the     *)
(* database, decides, and only then takes the lock and executes what it    *)
(* decided, statement by statement, beside the others.                     *)
(***************************************************************************)
EXTENDS PlanPromises, Integers

CONSTANTS
  Project,
  Session,      \* shells in which commands run, one after another
  Files,        \* [Project -> the DAGs its migration files may describe]
  PlanFor(_, _),\* the plan for (desired DAG, live DAG): the steps that change
                \* the database; the others are in Executor
  DropOrder(_), \* the order in which a destroy drops a set of tables
  Ways,         \* [Project -> how they get here: of {"apply", "promote"}]
  Day,          \* the length of a day, in hours
  Window,       \* the maintenance window <<start, end>>; None: not configured
  TzOffset,     \* of the window, in hours
  MaxCommands,  \* bound: the commands that are given
  MaxFaults     \* bound: the errors and crashes that happen

(* A row of aqueduct.dag_versions.                                         *)
VersionRow == [project : Project, spec : DagState, recent : BOOLEAN]

(* config.rs, parse_hhmm: neither the hours of the window nor those of its *)
(* offset exceed a day.                                                    *)
ASSUME CommandsAssumption ==
  /\ Files \in [Project -> SUBSET DagState]
  /\ Ways \in [Project -> SUBSET {"apply", "promote"}]
  /\ Day \in Nat \ {0}
  /\ Window # None => Window \in (0 .. Day - 1) \X (0 .. Day - 1)
  /\ TzOffset \in 1 - Day .. Day - 1

(* NULL and None are no table, project or version, and "does not exist" is *)
(* neither a spec nor a row.                                               *)
ASSUME NothingAssumption ==
  /\ None \notin Table /\ None \notin Project /\ None \notin Nat
  /\ Absent \notin TableSpec /\ Absent \notin VersionRow

ASSUME PlannerAssumption ==
  \A project \in Project : \A desired \in Files[project], live \in DagState :
    LET plan == PlanFor(desired, live) IN
    /\ plan \in Seq(ChangingStep)
    /\ RecordsSnapshot(plan) /\ UnlocksLast(plan)
    /\ \A t \in Table : FitsTable(plan, desired, live, t)

ASSUME DropOrderAssumption ==
  \A tables \in SUBSET Table : DropOrder(tables) \in Seq(tables)

-----------------------------------------------------------------------------
VARIABLES
  live,        \* the stream tables
  owner,       \* aqueduct.stream_table_ownership: [Table -> Project or None]
  versions,    \* aqueduct.dag_versions, by its bigserial; Absent: deleted
  migrations,  \* the versions the rows of aqueduct.migrations refer to
  lock,        \* aqueduct.locks: [Project -> the session, or None]
  hour,        \* the time of the day, UTC
  cmd,         \* [Session -> the command it runs]
  given,       \* how many commands were given
  faults       \* how many faults have happened

database == <<live, owner, versions, migrations, lock>>
vars     == <<database, hour, cmd, given, faults>>

NoCommand == [phase |-> "none"]

Busy(s) == cmd[s] # NoCommand

Give(s) ==
  /\ ~Busy(s)
  /\ given < MaxCommands
  /\ given' = given + 1

-----------------------------------------------------------------------------
(* What a command reads.                                                   *)

(* live_state.rs: the tables the catalog says are the project's.           *)
LiveOf(p) == [t \in Table |-> IF owner[t] = p THEN live[t] ELSE Absent]

VersionsOf(p) ==
  {v \in DOMAIN versions : versions[v] # Absent /\ versions[v].project = p}

Latest(p) ==
  IF VersionsOf(p) = {} THEN None
  ELSE CHOOSE v \in VersionsOf(p) : \A w \in VersionsOf(p) : w <= v

(* rollback.rs: the row of the version, if it is one of the project's.     *)
(* Mutated: whoever's it is.                                               *)
TargetsOfAnyone(p) == {v \in DOMAIN versions : versions[v] # Absent /\ v < Latest(p)}

Targets(p) == {v \in VersionsOf(p) : v < Latest(p)}

(* Mutated: the spec of the newest version (the bug C1 of ROADMAP.md:1060, *)
(* where the files were read instead).                                     *)
RecordedSpecLatest(v) == versions[Latest(versions[v].project)].spec

RecordedSpec(v) == versions[v].spec

(* config.rs: whether the time lies in the window, which may span midnight. *)
(* Mutated: the clock is read as if the window were given in UTC.          *)
InWindowUTC(h) ==
  IF Window = None THEN TRUE
  ELSE IF Window[1] <= Window[2] THEN Window[1] <= h /\ h < Window[2]
       ELSE Window[1] <= h \/ h < Window[2]

InWindow(h) ==
  IF Window = None THEN TRUE
  ELSE LET local == (h + TzOffset + Day) % Day IN
       IF Window[1] <= Window[2]
       THEN Window[1] <= local /\ local < Window[2]
       ELSE Window[1] <= local \/ local < Window[2]

-----------------------------------------------------------------------------
(* What a command decides.                                                 *)

StepsOf(plan, t, op) == {i \in DOMAIN plan : plan[i].table = t /\ plan[i].op = op}

(* plan.summary.rebuild_count: creates and drops are not counted.          *)
(* Mutated: only the rebuilds of tables whose query changes.               *)
RebuiltQueries(plan) ==
  {t \in Table : \E i \in StepsOf(plan, t, "DropStreamTable"),
                    j \in StepsOf(plan, t, "CreateStreamTable") :
                    plan[j].args.query # live[t].query}

Rebuilt(plan) ==
  {t \in Table : /\ StepsOf(plan, t, "DropStreamTable") # {}
                 /\ StepsOf(plan, t, "CreateStreamTable") # {}}

NewRun(p, kind, spec, goal, plan, flag) ==
  [phase |-> "planned", kind |-> kind, project |-> p, spec |-> spec,
   goal |-> goal, from |-> Latest(p), todo |-> plan,
   rebuilt |-> Rebuilt(plan), flagged |-> flag # "none", row |-> FALSE,
   new |-> None, undisturbed |-> TRUE]

(* compute_promotion_plan, and apply and rollback alike: the default plan  *)
(* from the tables that are the project's now.                             *)
PlanAgainstLive(spec, p) == PlanFor(spec, LiveOf(p))

(* apply.rs, promote.rs: a plan without changes ends the command.          *)
PlanFiles(s) ==
  /\ Give(s)
  /\ \E p \in Project : \E kind \in Ways[p], spec \in Files[p] :
       LET plan == PlanAgainstLive(spec, p) IN
       /\ ~NoChanges(plan)
       /\ cmd' = [cmd EXCEPT ![s] = NewRun(p, kind, spec, None, plan, "none")]
  /\ UNCHANGED <<database, hour, faults>>

(* rollback.rs: Safe, PointInTime and DataLoss, and the flag each needs.   *)
(* The age is that of the current version, whatever it changed.            *)
RollbackAllowed(plan, p, flag) ==
  \/ Rebuilt(plan) = {}
  \/ versions[Latest(p)].recent /\ flag = "within-window"
  \/ flag = "accept-data-loss"

PlanRollback(s) ==
  /\ Give(s)
  /\ \E p \in Project, flag \in {"none", "within-window", "accept-data-loss"} :
       /\ VersionsOf(p) # {}
       /\ \E v \in Targets(p) :
            LET plan == PlanAgainstLive(RecordedSpec(v), p) IN
            /\ ~NoChanges(plan)
            /\ RollbackAllowed(plan, p, flag)
            /\ cmd' = [cmd EXCEPT ![s] =
                         NewRun(p, "rollback", RecordedSpec(v), v, plan, flag)]
  /\ UNCHANGED <<database, hour, faults>>

(* destroy.rs: the tables one by one, then the rows.  No lock is taken.    *)
Drops(p) ==
  LET drops == DropOrder(Existing(LiveOf(p))) IN
  [i \in DOMAIN drops |-> DoOn("Drop", drops[i])]

(* Mutated: the versions before the migrations that refer to them.         *)
DestroyStepsVersionsFirst(p) ==
  Drops(p) \o <<Do("DeleteLocks"), Do("DeleteVersions"), Do("DeleteMigrations"),
                Do("DeleteOwnership"), Do("Report")>>

DestroySteps(p) ==
  Drops(p) \o <<Do("DeleteLocks"), Do("DeleteMigrations"), Do("DeleteVersions"),
                Do("DeleteOwnership"), Do("Report")>>

PlanDestroy(s) ==
  /\ Give(s)
  /\ \E p \in Project :
       cmd' = [cmd EXCEPT ![s] =
         [NewRun(p, "destroy", EmptyDag, None, <<>>, "none")
            EXCEPT !.phase = "running", !.todo = DestroySteps(p)]]
  /\ UNCHANGED <<database, hour, faults>>

-----------------------------------------------------------------------------
(* What a command executes.                                                *)

Now(s) == Head(cmd[s].todo)

At(s, op) == cmd[s].phase = "running" /\ Now(s).op = op

Proj(s) == cmd[s].project

(* The tables a command is about.                                          *)
About(s) == {t \in Table : owner[t] = Proj(s) \/ cmd[s].spec[t] # Absent}

(* History: whether nobody interferes with what u does when s changes      *)
(* tables; a destroy is also disturbed by any write to its catalog rows.   *)
Undisturbed(u, s, tables) ==
  /\ cmd[u].undisturbed
  /\ tables \cap About(u) = {}
  /\ Proj(u) = Proj(s) => tables = {} /\ cmd[u].kind # "destroy"

(* The session s goes on as c, the others as before.                       *)
Changes(s, tables, c) ==
  cmd' = [u \in Session |->
    CASE u = s -> IF c.todo = <<>> THEN NoCommand ELSE c
      [] u # s /\ ~Busy(u) -> NoCommand
      [] u # s /\ Busy(u) ->
           [cmd[u] EXCEPT !.undisturbed = Undisturbed(u, s, tables)]]

Rest(s) == [cmd[s] EXCEPT !.todo = Tail(@)]

(* The prompt is answered, the window is checked (by apply alone, when the *)
(* plan rebuilds), and the migration row is inserted; its from_version is  *)
(* a foreign key.                                                          *)
Begin(s) ==
  /\ cmd[s].phase = "planned"
  /\ cmd[s].kind = "apply" /\ cmd[s].rebuilt # {} => InWindow(hour)
  /\ cmd[s].from # None => versions[cmd[s].from] # Absent
  /\ migrations' = migrations \cup
       (IF cmd[s].from = None THEN {} ELSE {cmd[s].from})
  /\ Changes(s, {}, [cmd[s] EXCEPT !.phase = "running", !.row = TRUE,
                                     !.from = None, !.rebuilt = {}])
  /\ UNCHANGED <<live, owner, versions, lock, hour, given, faults>>

(* The answer is no, or a check refuses.                                   *)
Decline(s) ==
  /\ cmd[s].phase = "planned"
  /\ cmd' = [cmd EXCEPT ![s] = NoCommand]
  /\ UNCHANGED <<database, hour, given, faults>>

Holds(s, p) == lock[p] = s /\ cmd[s].phase = "running" /\ Proj(s) = p

(* No other run has it: a row whose run died expires (see LeaseLock).      *)
LockFree(s) == ~\E u \in Session \ {s} : Holds(u, Proj(s))

LockDag(s) ==
  /\ At(s, "LockDag")
  /\ LockFree(s)
  /\ lock' = [lock EXCEPT ![Proj(s)] = s]
  /\ Changes(s, {}, Rest(s))
  /\ UNCHANGED <<live, owner, versions, migrations, hour, given, faults>>

(* Creating registers the table for the project, whoever had it;           *)
(* dropping deregisters it by its name.                                    *)
TableStep(s) ==
  /\ \E op \in {"CreateStreamTable", "AlterStreamTable", "DropStreamTable"} : At(s, op)
  /\ live' = Effect(live, Now(s))
  /\ owner' = CASE At(s, "CreateStreamTable") -> [owner EXCEPT ![Now(s).table] = Proj(s)]
                [] At(s, "DropStreamTable")   -> [owner EXCEPT ![Now(s).table] = None]
                [] OTHER -> owner
  /\ Changes(s, {Now(s).table}, Rest(s))
  /\ UNCHANGED <<versions, migrations, lock, hour, given, faults>>

RecordSnapshot(s) ==
  /\ At(s, "RecordSnapshot")
  /\ versions' = Append(versions, [project |-> Proj(s), spec |-> cmd[s].spec, recent |-> TRUE])
  /\ Changes(s, {}, [Rest(s) EXCEPT !.new = Len(versions) + 1])
  /\ UNCHANGED <<live, owner, migrations, lock, hour, given, faults>>

(* The version the committed migration refers to: its row may be deleted,  *)
(* and then there is none to update; to_version is a foreign key too.      *)
Committed(s) ==
  IF cmd[s].row /\ versions[cmd[s].new] # Absent THEN {cmd[s].new} ELSE {}

(* The lock is released and the migration committed.                       *)
UnlockDag(s) ==
  /\ At(s, "UnlockDag")
  /\ lock' = [lock EXCEPT ![Proj(s)] = IF @ = s THEN None ELSE @]
  /\ migrations' = migrations \cup Committed(s)
  /\ Changes(s, {}, Rest(s))
  /\ UNCHANGED <<live, owner, versions, hour, given, faults>>

Fault == faults < MaxFaults /\ faults' = faults + 1

(* A statement of a destroy: its error is ignored, and it goes on.         *)
Ignoring(s, done) ==
  \/ done /\ UNCHANGED faults
  \/ /\ Fault
     /\ Changes(s, {}, [Rest(s) EXCEPT !.undisturbed = FALSE])
     /\ UNCHANGED database

Drop(s) ==
  /\ At(s, "Drop")
  /\ Ignoring(s, /\ live' = DropTable(live, Now(s).table)
                 /\ Changes(s, {Now(s).table}, Rest(s))
                 /\ UNCHANGED <<owner, versions, migrations, lock>>)
  /\ UNCHANGED <<hour, given>>

DeleteLocks(s) ==
  /\ At(s, "DeleteLocks")
  /\ Ignoring(s, /\ lock' = [lock EXCEPT ![Proj(s)] = None]
                 /\ Changes(s, {}, Rest(s))
                 /\ UNCHANGED <<live, owner, versions, migrations>>)
  /\ UNCHANGED <<hour, given>>

DeleteMigrations(s) ==
  /\ At(s, "DeleteMigrations")
  /\ Ignoring(s,
       /\ migrations' = migrations \ VersionsOf(Proj(s))
       /\ cmd' = [u \in Session |->
                    CASE u = s -> Rest(s)
                      [] u # s /\ Busy(u) /\ Proj(u) = Proj(s) ->
                           [cmd[u] EXCEPT !.row = FALSE]
                      [] OTHER -> cmd[u]]
       /\ UNCHANGED <<live, owner, versions, lock>>)
  /\ UNCHANGED <<hour, given>>

(* Refused, silently, while a migration row refers to one of the versions. *)
(* Mutated: the versions of every project.                                 *)
DeletedVersionsAll(p) == DOMAIN versions

DeletedVersions(p) == VersionsOf(p)

DeleteVersions(s) ==
  /\ At(s, "DeleteVersions")
  /\ Ignoring(s,
       /\ versions' = IF DeletedVersions(Proj(s)) \cap migrations # {} THEN versions
                      ELSE [v \in DOMAIN versions |->
                              IF v \in DeletedVersions(Proj(s)) THEN Absent ELSE versions[v]]
       /\ Changes(s, {}, Rest(s))
       /\ UNCHANGED <<live, owner, migrations, lock>>)
  /\ UNCHANGED <<hour, given>>

DeleteOwnership(s) ==
  /\ At(s, "DeleteOwnership")
  /\ Ignoring(s, /\ owner' = [t \in Table |-> IF owner[t] = Proj(s) THEN None ELSE owner[t]]
                 /\ Changes(s, {t \in Table : owner[t] = Proj(s)}, Rest(s))
                 /\ UNCHANGED <<live, versions, migrations, lock>>)
  /\ UNCHANGED <<hour, given>>

Report(s) ==
  /\ At(s, "Report")
  /\ Changes(s, {}, Rest(s))
  /\ UNCHANGED <<database, hour, given, faults>>

(* An error ends the command and releases its lock; the migration row      *)
(* stays.  LockDag fails when the lock is held.                            *)
Fail(s) ==
  /\ cmd[s].phase = "running" /\ cmd[s].kind # "destroy"
  /\ IF At(s, "LockDag") /\ ~LockFree(s) THEN UNCHANGED faults ELSE Fault
  /\ lock' = [lock EXCEPT ![Proj(s)] = IF @ = s THEN None ELSE @]
  /\ cmd' = [cmd EXCEPT ![s] = NoCommand]
  /\ UNCHANGED <<live, owner, versions, migrations, hour, given>>

Crash(s) ==
  /\ cmd[s].phase = "running"
  /\ Fault
  /\ cmd' = [cmd EXCEPT ![s] = NoCommand]
  /\ UNCHANGED <<database, hour, given>>

Execute(s) ==
  \/ Begin(s) \/ LockDag(s) \/ TableStep(s) \/ RecordSnapshot(s) \/ UnlockDag(s)
  \/ Drop(s) \/ DeleteLocks(s) \/ DeleteMigrations(s) \/ DeleteVersions(s)
  \/ DeleteOwnership(s) \/ Report(s)

(* An hour passes: what was recent, the lossless window, is over.          *)
Tick ==
  /\ hour' = (hour + 1) % Day
  /\ versions' = [v \in DOMAIN versions |->
                    IF versions[v] = Absent THEN Absent
                    ELSE [versions[v] EXCEPT !.recent = FALSE]]
  /\ UNCHANGED <<live, owner, migrations, lock, cmd, given, faults>>

-----------------------------------------------------------------------------
Init ==
  /\ live = EmptyDag
  /\ owner = [t \in Table |-> None]
  /\ versions = <<>>
  /\ migrations = {}
  /\ lock = [p \in Project |-> None]
  /\ hour = 0
  /\ cmd = [s \in Session |-> NoCommand]
  /\ given = 0
  /\ faults = 0

Next ==
  \/ Tick
  \/ \E s \in Session :
       \/ PlanFiles(s)
       \/ PlanRollback(s)
       \/ PlanDestroy(s)
       \/ Decline(s)
       \/ Execute(s)
       \/ Fail(s)
       \/ Crash(s)

Spec == Init /\ [][Next]_vars

-----------------------------------------------------------------------------
(* Version rows, owners, lock rows and commands are what they should be,   *)
(* and the migrations refer to versions that exist (the foreign key).      *)
TypeOK ==
  /\ live \in DagState
  /\ owner \in [Table -> Project \cup {None}]
  /\ lock \in [Project -> Session \cup {None}]
  /\ hour \in 0 .. Day - 1
  /\ \A v \in DOMAIN versions :
       versions[v] # Absent =>
         /\ versions[v].project \in Project
         /\ versions[v].spec \in DagState
         /\ versions[v].recent \in BOOLEAN
  /\ migrations \subseteq {v \in DOMAIN versions : versions[v] # Absent}
  /\ \A s \in Session : cmd[s].phase = "running" => cmd[s].todo # <<>>

(* rollback.rs:132 (C1) and the converse for apply and promote: a run      *)
(* beside which no other session changed a table it is about has, once its *)
(* version is recorded, left the project with exactly the tables and       *)
(* queries of its target: of the version the rollback names, as that       *)
(* version recorded it, or of the files.                                   *)
ReachesTarget ==
  \A s \in Session :
    /\ At(s, "UnlockDag")
    /\ cmd[s].undisturbed
    /\ cmd[s].goal # None => versions[cmd[s].goal] # Absent
    => LET target == IF cmd[s].goal = None THEN cmd[s].spec
                     ELSE versions[cmd[s].goal].spec
           result == LiveOf(Proj(s))
       IN /\ Existing(result) = Existing(target)
          /\ \A t \in Existing(target) : result[t].query = target[t].query

(* rollback.rs:116: although the projects share one sequence of versions,  *)
(* no chain of applies and rollbacks brings a project to a state that only *)
(* another project's files ever described.                                 *)
HistoryIsOwn ==
  \A v \in DOMAIN versions :
    versions[v] # Absent => versions[v].spec \in Files[versions[v].project]

(* config.rs:137: an apply that rebuilds begins at an hour which, counted  *)
(* from the start of the window, comes before its end.                     *)
RebuildsBeginInWindow ==
  [][\A s \in Session :
       cmd[s].phase = "planned" /\ cmd[s].kind = "apply" /\ cmd[s].rebuilt # {} =>
         LET length == (Window[2] - Window[1] + Day) % Day
             since  == (hour + TzOffset - Window[1] + 2 * Day) % Day
         IN cmd[s]'.phase = "running" => since < length]_vars

(* rollback.rs:13: what a rollback does without a flag is Safe: it drops   *)
(* no table whose rows the target version keeps.                           *)
UnflaggedRollbackKeepsRows ==
  \A s \in Session :
    At(s, "DropStreamTable") /\ cmd[s].kind = "rollback" /\ ~cmd[s].flagged =>
      cmd[s].spec[Now(s).table] = Absent

(* destroy.rs:264: a destroy beside which no command of its project did    *)
(* anything leaves nothing behind that the catalog says is the project's,  *)
(* not even a version that a migration row might have held.                *)
DestroyIsComplete ==
  \A s \in Session :
    At(s, "Report") /\ cmd[s].undisturbed =>
      /\ \A t \in Table : owner[t] # Proj(s)
      /\ VersionsOf(Proj(s)) = {}
      /\ lock[Proj(s)] = None

Steps(s) ==
  /\ cmd[s].phase = "running" /\ cmd[s]'.phase = "running"
  /\ cmd[s].todo # cmd[s]'.todo

(* destroy.rs:66 (C-06): such a destroy takes nothing from another         *)
(* project: not its tables, although names are shared, nor its history.    *)
DestroyIsScoped ==
  [][\A s \in Session, p \in Project :
       Steps(s) /\ cmd[s].kind = "destroy" /\ cmd[s].undisturbed /\ p # Proj(s) =>
         LiveOf(p)' = LiveOf(p) /\ VersionsOf(p)' = VersionsOf(p)]_vars

(* GLOSSARY.md:195: the project lock "serializes concurrent apply,         *)
(* rollback, promote, or other mutating operations for one project".       *)
MutationsAreSerialized ==
  [][\A s, u \in Session :
       s # u /\ Steps(s) /\ live' # live => ~Holds(u, Proj(s))]_vars

=============================================================================
