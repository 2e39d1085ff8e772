---------------------------- MODULE CatalogProofs ----------------------------
(***************************************************************************)
(* Proofs about CatalogMigration, for any number of commands that upgrade  *)
(* the catalog side by side and any version they find.                     *)
(***************************************************************************)
EXTENDS CatalogMigration, TLAPS

(* What the commands rely on between two steps.  A command in the ladder   *)
(* has all that the batches below its next one add, although the version   *)
(* row may say less meanwhile: another command writes it as well.          *)
CatalogInv ==
  /\ TypeOK
  /\ VersionMeansObjects
  /\ version = 0 => objects = {}
  /\ \A c \in Command :
       /\ At(c, "batch") =>
            /\ cmd[c].next \in 1 .. CATALOG_SCHEMA_VERSION
            /\ Provides(cmd[c].next - 1) \subseteq objects
       /\ At(c, "work") => Provides(CATALOG_SCHEMA_VERSION) \subseteq objects

-----------------------------------------------------------------------------
(* The batches: what they add, and that init adds all of it.               *)

LEMMA ProvidesNothing == Provides(0) = {}
  BY DEF Provides

LEMMA ProvidesNext ==
  ASSUME NEW k \in 1 .. CATALOG_SCHEMA_VERSION
  PROVE  Provides(k) \subseteq Provides(k - 1) \cup Batch(k).adds
<1>1. \A j \in (1 .. k) \ {6} : j = k \/ j \in (1 .. k - 1) \ {6}
  BY DEF CATALOG_SCHEMA_VERSION
<1>2. QED
  BY <1>1 DEF Provides

LEMMA ProvidesInstalled ==
  ASSUME NEW v \in 0 .. CATALOG_SCHEMA_VERSION
  PROVE  Provides(v) \subseteq InstalledObjects(v)
  BY DEF Provides, InstalledObjects

LEMMA InstalledGrows ==
  ASSUME NEW v \in 0 .. CATALOG_SCHEMA_VERSION
  PROVE  InstalledObjects(v) \subseteq InstalledObjects(CATALOG_SCHEMA_VERSION)
  BY DEF InstalledObjects, CATALOG_SCHEMA_VERSION

LEMMA BatchInstalled ==
  ASSUME NEW k \in 1 .. CATALOG_SCHEMA_VERSION
  PROVE  Batch(k).adds \subseteq InstalledObjects(CATALOG_SCHEMA_VERSION)
  BY DEF InstalledObjects

(* Batch by batch, the sixth (the mock scheduler's) apart.                 *)
LEMMA InitAddsBatch ==
  ASSUME NEW k \in (1 .. CATALOG_SCHEMA_VERSION) \ {6}
  PROVE  Batch(k).adds \subseteq InitObjects
<1>1. k \in {1, 2, 3, 4, 5, 7, 8, 9}
  BY DEF CATALOG_SCHEMA_VERSION
<1>2. CASE k \in {1, 2, 3, 4}
  BY <1>2 DEF Batch, InitObjects, InitV1, MigrateV1ToV2, MigrateV2ToV3, MigrateV3ToV4
<1>3. CASE k \in {5, 7, 8, 9}
  BY <1>3 DEF Batch, InitObjects, MigrateV4ToV5, MigrateV6ToV7, MigrateV7ToV8, MigrateV8ToV9
<1>4. QED
  BY <1>1, <1>2, <1>3

LEMMA InitProvides == Provides(CATALOG_SCHEMA_VERSION) \subseteq InitObjects
  BY InitAddsBatch DEF Provides

LEMMA InitInstalled == InitObjects \subseteq InstalledObjects(CATALOG_SCHEMA_VERSION)
<1>1. \A k \in {1, 2, 3, 4, 5, 7, 8, 9} :
        Batch(k).adds \subseteq InstalledObjects(CATALOG_SCHEMA_VERSION)
  BY BatchInstalled DEF CATALOG_SCHEMA_VERSION
<1>2. InitObjects = Batch(1).adds \cup Batch(2).adds \cup Batch(3).adds \cup Batch(4).adds
        \cup Batch(5).adds \cup Batch(7).adds \cup Batch(8).adds \cup Batch(9).adds
  BY DEF InitObjects, Batch, InitV1, MigrateV1ToV2, MigrateV2ToV3, MigrateV3ToV4,
         MigrateV4ToV5, MigrateV6ToV7, MigrateV7ToV8, MigrateV8ToV9
<1>3. QED
  BY <1>1, <1>2

-----------------------------------------------------------------------------
LEMMA InitInv == Init => CatalogInv
<1> SUFFICES ASSUME Init PROVE CatalogInv
  OBVIOUS
<1>1. PICK v \in Installed :
        /\ version = v
        /\ objects = InstalledObjects(v)
        /\ statusCheck = CASE v = 0 -> {} [] v \in 1 .. 7 -> WithRecoverable
                           [] OTHER -> WithInterrupted
        /\ statuses \in SUBSET (statusCheck \cap {"recoverable_failure", "interrupted"})
        /\ cmd = [c \in Command |-> Idle]
  BY DEF Init
<1>2. v \in 0 .. CATALOG_SCHEMA_VERSION
  BY InstalledAssumption
<1>3. \A c \in Command : cmd[c].pc = "idle"
  BY <1>1 DEF Idle
<1>4. TypeOK
  <2>1. objects \subseteq InstalledObjects(CATALOG_SCHEMA_VERSION)
    BY <1>1, <1>2, InstalledGrows
  <2>2. cmd \in [Command -> [pc : {"idle", "read", "batch", "work", "ended", "stopped"},
                             next : 1 .. CATALOG_SCHEMA_VERSION + 1, alone : BOOLEAN]]
    BY <1>1 DEF Idle, CATALOG_SCHEMA_VERSION
  <2>3. statusCheck \in {{}, WithRecoverable, WithInterrupted}
    BY <1>1, <1>2 DEF CATALOG_SCHEMA_VERSION
  <2>4. QED
    BY <1>1, <1>2, <2>1, <2>2, <2>3 DEF TypeOK
<1>5. VersionMeansObjects
  BY <1>1, <1>2, ProvidesInstalled DEF VersionMeansObjects
<1>6. version = 0 => objects = {}
  BY <1>1 DEF InstalledObjects
<1>7. QED
  BY <1>3, <1>4, <1>5, <1>6 DEF CatalogInv, At

(* Steps that change no object and no version, and send a command neither  *)
(* into the ladder nor to work.                                            *)
LEMMA QuietInv ==
  ASSUME CatalogInv, UNCHANGED <<version, objects, statusCheck>>,
         statuses' \subseteq {"recoverable_failure", "interrupted"},
         NEW c \in Command,
         NEW pc \in {"idle", "read", "ended", "stopped"}, Go(c, pc)
  PROVE  CatalogInv'
<1>1. cmd' \in [Command -> [pc : {"idle", "read", "batch", "work", "ended", "stopped"},
                            next : 1 .. CATALOG_SCHEMA_VERSION + 1, alone : BOOLEAN]]
  BY DEF CatalogInv, TypeOK, Go
<1>2. \A d \in Command :
        /\ At(d, "batch")' => At(d, "batch") /\ cmd'[d] = cmd[d]
        /\ At(d, "work")' => At(d, "work")
  BY DEF CatalogInv, TypeOK, Go, At
<1>3. QED
  BY <1>1, <1>2 DEF CatalogInv, TypeOK, VersionMeansObjects

LEMMA InstallInv ==
  ASSUME CatalogInv, NEW c \in Command, InstallCatalog(c)
  PROVE  CatalogInv'
<1>1. CASE InitFails
  BY <1>1, QuietInv DEF InstallCatalog, CatalogInv, TypeOK
<1>2. CASE ~InitFails
  <2>1. /\ version' = VersionAfterInit
        /\ objects' = objects \cup (InitObjects \ KeptColumns)
        /\ statusCheck' = IF "migrations" \in objects THEN statusCheck ELSE WithInterrupted
        /\ UNCHANGED statuses
        /\ Go(c, "ended")
    BY <1>2 DEF InstallCatalog
  <2>2. TypeOK'
    <3>1. objects' \subseteq InstalledObjects(CATALOG_SCHEMA_VERSION)
      BY <2>1, InitInstalled DEF CatalogInv, TypeOK
    <3>2. version' \in 0 .. CATALOG_SCHEMA_VERSION
      BY <2>1 DEF VersionAfterInit, CatalogInv, TypeOK, CATALOG_SCHEMA_VERSION
    <3>3. cmd' \in [Command -> [pc : {"idle", "read", "batch", "work", "ended", "stopped"},
                                next : 1 .. CATALOG_SCHEMA_VERSION + 1, alone : BOOLEAN]]
      BY <2>1 DEF CatalogInv, TypeOK, Go
    <3>4. QED
      BY <2>1, <3>1, <3>2, <3>3 DEF CatalogInv, TypeOK
  <2>3. version' # 0
    BY <2>1 DEF VersionAfterInit, CATALOG_SCHEMA_VERSION
  <2>4. VersionMeansObjects'
    <3>1. CASE version = 0
      <4>1. objects' = InitObjects
        BY <2>1, <3>1 DEF CatalogInv, KeptColumns
      <4>2. version' = CATALOG_SCHEMA_VERSION
        BY <2>1, <3>1 DEF VersionAfterInit
      <4>3. QED
        BY <4>1, <4>2, InitProvides DEF VersionMeansObjects
    <3>2. CASE version # 0
      BY <2>1, <3>2 DEF VersionAfterInit, CatalogInv, VersionMeansObjects
    <3>3. QED
      BY <3>1, <3>2
  <2>5. \A d \in Command :
          /\ At(d, "batch")' => At(d, "batch") /\ cmd'[d] = cmd[d]
          /\ At(d, "work")' => At(d, "work")
    BY <2>1 DEF CatalogInv, TypeOK, Go, At
  <2>6. QED
    BY <2>1, <2>2, <2>3, <2>4, <2>5 DEF CatalogInv
<1>3. QED
  BY <1>1, <1>2

(* The version read promises the objects below the first batch.            *)
LEMMA ReadInv ==
  ASSUME CatalogInv, NEW c \in Command, ReadVersion(c)
  PROVE  CatalogInv'
<1>1. /\ cmd[c].pc = "read"
      /\ UNCHANGED <<version, objects, statusCheck, statuses>>
      /\ version \in 0 .. CATALOG_SCHEMA_VERSION
  BY DEF ReadVersion, At, CatalogInv, TypeOK
<1>2. /\ cmd'[c].pc = IF version < CATALOG_SCHEMA_VERSION THEN "batch" ELSE "work"
      /\ cmd'[c].next = version + 1
  BY DEF ReadVersion
<1>3. \A d \in Command \ {c} : cmd'[d].pc = cmd[d].pc /\ cmd'[d].next = cmd[d].next
  BY DEF ReadVersion, CatalogInv, TypeOK
<1>4. cmd' \in [Command -> [pc : {"idle", "read", "batch", "work", "ended", "stopped"},
                            next : 1 .. CATALOG_SCHEMA_VERSION + 1, alone : BOOLEAN]]
  <2> DEFINE Cmd == [pc : {"idle", "read", "batch", "work", "ended", "stopped"},
                     next : 1 .. CATALOG_SCHEMA_VERSION + 1, alone : BOOLEAN]
             alone == \A e \in Command \ {c} : ~At(e, "batch")
             read == [pc |-> IF version < CATALOG_SCHEMA_VERSION THEN "batch" ELSE "work",
                      next |-> version + 1, alone |-> alone]
  <2>1. alone \in BOOLEAN
    OBVIOUS
  <2>2. read \in Cmd
    <3> HIDE DEF alone
    <3>1. version + 1 \in 1 .. CATALOG_SCHEMA_VERSION + 1
      BY <1>1 DEF CATALOG_SCHEMA_VERSION
    <3>2. QED
      BY <2>1, <3>1
  <2>3. cmd' = [d \in Command |-> IF d = c THEN read
                                  ELSE IF At(d, "batch") THEN [cmd[d] EXCEPT !.alone = FALSE]
                                  ELSE cmd[d]]
    BY DEF ReadVersion
  <2>4. \A d \in Command : cmd[d] \in Cmd
    BY DEF CatalogInv, TypeOK
  <2>5. \A d \in Command : [cmd[d] EXCEPT !.alone = FALSE] \in Cmd
    BY <2>4
  <2>6. cmd' \in [Command -> Cmd]
    <3> HIDE DEF Cmd, read
    <3>1. QED
      BY <2>2, <2>3, <2>4, <2>5
  <2>7. QED
    BY <2>6
<1>5. /\ At(c, "batch")' =>
           /\ cmd'[c].next \in 1 .. CATALOG_SCHEMA_VERSION
           /\ Provides(cmd'[c].next - 1) \subseteq objects
      /\ At(c, "work")' => Provides(CATALOG_SCHEMA_VERSION) \subseteq objects
  <2>1. Provides(version) \subseteq objects
    BY DEF CatalogInv, VersionMeansObjects
  <2>2. CASE version < CATALOG_SCHEMA_VERSION
    BY <1>1, <1>2, <2>1, <2>2 DEF At, CATALOG_SCHEMA_VERSION
  <2>3. CASE version = CATALOG_SCHEMA_VERSION
    BY <1>2, <2>1, <2>3 DEF At, CATALOG_SCHEMA_VERSION
  <2>4. QED
    BY <1>1, <2>2, <2>3 DEF CATALOG_SCHEMA_VERSION
<1>6. TypeOK'
  BY <1>1, <1>4 DEF CatalogInv, TypeOK
<1>7. VersionMeansObjects'
  BY <1>1 DEF CatalogInv, VersionMeansObjects
<1>8. \A d \in Command :
        /\ At(d, "batch")' =>
             /\ cmd'[d].next \in 1 .. CATALOG_SCHEMA_VERSION
             /\ Provides(cmd'[d].next - 1) \subseteq objects
        /\ At(d, "work")' => Provides(CATALOG_SCHEMA_VERSION) \subseteq objects
  <2>1. TAKE d \in Command
  <2>2. CASE d = c
    BY <1>5, <2>2
  <2>3. CASE d # c
    BY <1>3, <2>3 DEF CatalogInv, At
  <2>4. QED
    BY <2>2, <2>3
<1>9. version' = 0 => objects' = {}
  BY <1>1 DEF CatalogInv
<1>10. objects' = objects
  BY <1>1
<1>11. QED
  BY <1>6, <1>7, <1>8, <1>9, <1>10 DEF CatalogInv

(* A batch writes its own number, higher or lower than what the row said:  *)
(* what it promises is what its command had, with what the batch adds.     *)
LEMMA RunBatchInv ==
  ASSUME CatalogInv, NEW c \in Command, RunBatch(c)
  PROVE  CatalogInv'
<1> DEFINE k == cmd[c].next
<1>1. /\ At(c, "batch")
      /\ k \in 1 .. CATALOG_SCHEMA_VERSION
      /\ Provides(k - 1) \subseteq objects
  BY DEF RunBatch, CatalogInv
<1>2. /\ objects' = objects \cup Batch(k).adds
      /\ version' = k
      /\ statusCheck' = IF Batch(k).check = {} THEN statusCheck ELSE Batch(k).check
      /\ UNCHANGED statuses
      /\ cmd' = [cmd EXCEPT ![c].next = k + 1,
                            ![c].pc = IF k + 1 > CATALOG_SCHEMA_VERSION THEN "work" ELSE @]
  BY DEF RunBatch, RecordedVersion, NextAfter
<1>3. Provides(k) \subseteq objects'
  BY <1>1, <1>2, ProvidesNext
<1>4. cmd' \in [Command -> [pc : {"idle", "read", "batch", "work", "ended", "stopped"},
                            next : 1 .. CATALOG_SCHEMA_VERSION + 1, alone : BOOLEAN]]
  <2> DEFINE Cmd == [pc : {"idle", "read", "batch", "work", "ended", "stopped"},
                     next : 1 .. CATALOG_SCHEMA_VERSION + 1, alone : BOOLEAN]
             upgraded == [cmd[c] EXCEPT
               !.next = k + 1,
               !.pc = IF k + 1 > CATALOG_SCHEMA_VERSION THEN "work" ELSE @]
  <2>1. cmd[c] \in Cmd /\ cmd \in [Command -> Cmd]
    BY DEF CatalogInv, TypeOK
  <2>2. k + 1 \in 1 .. CATALOG_SCHEMA_VERSION + 1
    BY <1>1 DEF CATALOG_SCHEMA_VERSION
  <2>3. upgraded \in Cmd
    BY <2>1, <2>2
  <2>4. cmd' = [cmd EXCEPT ![c] = upgraded]
    BY <1>2, <2>1
  <2>5. cmd' \in [Command -> Cmd]
    <3> HIDE DEF Cmd, upgraded
    <3>1. QED
      BY <2>1, <2>3, <2>4
  <2>6. QED
    BY <2>5
<1>5. TypeOK'
  <2>1. objects' \subseteq InstalledObjects(CATALOG_SCHEMA_VERSION)
    BY <1>1, <1>2, BatchInstalled DEF CatalogInv, TypeOK
  <2>2. Batch(k).check \in {{}, WithRecoverable, WithInterrupted}
    <3>1. k \in {1, 2, 3, 4, 5, 6, 7, 8, 9}
      BY <1>1 DEF CATALOG_SCHEMA_VERSION
    <3>2. CASE k \in {1, 2, 3, 4, 5}
      BY <3>2 DEF Batch, InitV1, MigrateV1ToV2, MigrateV2ToV3, MigrateV3ToV4, MigrateV4ToV5
    <3>3. CASE k \in {6, 7, 8, 9}
      BY <3>3 DEF Batch, MigrateV5ToV6, MigrateV6ToV7, MigrateV7ToV8, MigrateV8ToV9
    <3>4. QED
      BY <3>1, <3>2, <3>3
  <2>3. statusCheck' \in {{}, WithRecoverable, WithInterrupted}
    BY <1>2, <2>2 DEF CatalogInv, TypeOK
  <2>4. QED
    BY <1>1, <1>2, <1>4, <2>1, <2>3 DEF CatalogInv, TypeOK, CATALOG_SCHEMA_VERSION
<1>6. VersionMeansObjects'
  BY <1>2, <1>3 DEF VersionMeansObjects
<1>7. version' # 0
  BY <1>1, <1>2 DEF CATALOG_SCHEMA_VERSION
<1>8. /\ At(c, "batch")' =>
           /\ cmd'[c].next \in 1 .. CATALOG_SCHEMA_VERSION
           /\ Provides(cmd'[c].next - 1) \subseteq objects'
      /\ At(c, "work")' => Provides(CATALOG_SCHEMA_VERSION) \subseteq objects'
  <2>1. cmd'[c].next = k + 1
    BY <1>2 DEF CatalogInv, TypeOK
  <2>2. cmd'[c].pc = IF k + 1 > CATALOG_SCHEMA_VERSION THEN "work" ELSE "batch"
    BY <1>1, <1>2 DEF CatalogInv, TypeOK, At
  <2>3. (k + 1) - 1 = k
    BY <1>1 DEF CATALOG_SCHEMA_VERSION
  <2>4. CASE k + 1 > CATALOG_SCHEMA_VERSION
    BY <1>1, <1>3, <2>2, <2>4 DEF At, CATALOG_SCHEMA_VERSION
  <2>5. CASE ~(k + 1 > CATALOG_SCHEMA_VERSION)
    BY <1>1, <1>3, <2>1, <2>2, <2>3, <2>5 DEF At, CATALOG_SCHEMA_VERSION
  <2>6. QED
    BY <2>4, <2>5
<1>9. \A d \in Command \ {c} : cmd'[d] = cmd[d]
  BY <1>2 DEF CatalogInv, TypeOK
<1>10. \A d \in Command \ {c} :
         /\ At(d, "batch")' =>
              /\ cmd'[d].next \in 1 .. CATALOG_SCHEMA_VERSION
              /\ Provides(cmd'[d].next - 1) \subseteq objects'
         /\ At(d, "work")' => Provides(CATALOG_SCHEMA_VERSION) \subseteq objects'
  BY <1>2, <1>9 DEF CatalogInv, At
<1>11. QED
  BY <1>5, <1>6, <1>7, <1>8, <1>10 DEF CatalogInv

LEMMA NextInv == CatalogInv /\ [Next]_vars => CatalogInv'
<1> SUFFICES ASSUME CatalogInv, [Next]_vars PROVE CatalogInv'
  OBVIOUS
<1>1. ASSUME NEW c \in Command, InstallCatalog(c) PROVE CatalogInv'
  BY <1>1, InstallInv
<1>2. ASSUME NEW c \in Command, FindSchema(c) PROVE CatalogInv'
  BY <1>2, QuietInv DEF FindSchema, CatalogInv, TypeOK
<1>3. ASSUME NEW c \in Command, ReadVersion(c) PROVE CatalogInv'
  BY <1>3, ReadInv
<1>4. ASSUME NEW c \in Command, RunBatch(c) PROVE CatalogInv'
  BY <1>4, RunBatchInv
<1>5. ASSUME NEW c \in Command, Stop(c) PROVE CatalogInv'
  BY <1>5, QuietInv DEF Stop, CatalogInv, TypeOK
<1>6. ASSUME NEW c \in Command, Work(c) PROVE CatalogInv'
  BY <1>6, QuietInv DEF Work, CatalogInv, TypeOK
<1>7. CASE UNCHANGED vars
  BY <1>7 DEF vars, CatalogInv, TypeOK, VersionMeansObjects, At
<1>8. QED
  BY <1>1, <1>2, <1>3, <1>4, <1>5, <1>6, <1>7 DEF Next

LEMMA CatalogInvariant == Spec => []CatalogInv
  BY InitInv, NextInv, PTL DEF Spec

(* Every reachable state is well typed: whatever batches interleave, the   *)
(* objects are those of some release.                                      *)
THEOREM CatalogTypes == Spec => []TypeOK
<1>1. CatalogInv => TypeOK
  BY DEF CatalogInv
<1>2. QED
  BY <1>1, CatalogInvariant, PTL

(* catalog.rs:804: with any number of commands upgrading side by side, the *)
(* version row promises no object that is missing.                         *)
THEOREM VersionIsHonest == Spec => []VersionMeansObjects
<1>1. CatalogInv => VersionMeansObjects
  BY DEF CatalogInv
<1>2. QED
  BY <1>1, CatalogInvariant, PTL

(* catalog.rs:781: every command at work has the objects of the current    *)
(* release under it.                                                       *)
THEOREM CommandsWorkOnCurrent == Spec => []WorksOnCurrentCatalog
<1>1. CatalogInv => WorksOnCurrentCatalog
  BY DEF CatalogInv, WorksOnCurrentCatalog
<1>2. QED
  BY <1>1, CatalogInvariant, PTL

-----------------------------------------------------------------------------
(* The status check and the ladder.  A command alone in the ladder stands  *)
(* where the row says, and what the row says of the check holds; of those  *)
(* that overlapped one will still run batch 8, as long as none has died.   *)

Overtaken == \E c \in Command : At(c, "stopped") /\ ~cmd[c].alone

AllAlone == \A c \in Command : At(c, "batch") => cmd[c].alone

CheckMatchesVersion ==
  IF version >= 8 THEN "interrupted" \in statusCheck
  ELSE "interrupted" \notin statusCheck \cup statuses

LadderInv ==
  /\ \A c \in Command : Upgrading(c) => version # 0
  /\ ~Overtaken =>
       /\ \A c \in Command : At(c, "batch") /\ cmd[c].alone =>
            /\ version = cmd[c].next - 1
            /\ \A d \in Command \ {c} : ~At(d, "batch")
       /\ AllAlone => CheckMatchesVersion
       /\ ~AllAlone /\ "interrupted" \notin statusCheck =>
            \E c \in Command : At(c, "batch") /\ cmd[c].next <= 8

(* Which batches touch the check.                                          *)
LEMMA BatchChecks ==
  ASSUME NEW k \in 1 .. CATALOG_SCHEMA_VERSION
  PROVE  Batch(k).check = IF k \in {1, 3} THEN WithRecoverable
                          ELSE IF k = 8 THEN WithInterrupted ELSE {}
<1>1. k \in {1, 2, 3, 4, 5, 6, 7, 8, 9}
  BY DEF CATALOG_SCHEMA_VERSION
<1>2. CASE k \in {1, 2, 3, 4, 5}
  BY <1>2 DEF Batch, InitV1, MigrateV1ToV2, MigrateV2ToV3, MigrateV3ToV4, MigrateV4ToV5
<1>3. CASE k \in {6, 7, 8, 9}
  BY <1>3 DEF Batch, MigrateV5ToV6, MigrateV6ToV7, MigrateV7ToV8, MigrateV8ToV9
<1>4. QED
  BY <1>1, <1>2, <1>3

LEMMA ChecksDiffer == "interrupted" \in WithInterrupted /\ "interrupted" \notin WithRecoverable
  BY DEF WithInterrupted, WithRecoverable

(* Steps of a command outside the ladder that touch neither the row nor    *)
(* the check.                                                              *)
LEMMA SameLadder ==
  ASSUME CatalogInv, LadderInv, UNCHANGED <<version, statusCheck>>,
         "interrupted" \in statuses' => "interrupted" \in statuses \cup statusCheck,
         NEW c \in Command, ~At(c, "batch"), ~At(c, "stopped"),
         NEW pc \in {"idle", "read", "ended", "stopped"}, Go(c, pc),
         pc = "read" => version # 0
  PROVE  LadderInv'
<1>1. \A d \in Command :
        /\ At(d, "batch")' <=> At(d, "batch")
        /\ cmd'[d].alone = cmd[d].alone /\ cmd'[d].next = cmd[d].next
        /\ At(d, "stopped") => At(d, "stopped")'
        /\ At(d, "read")' => At(d, "read") \/ version # 0
  BY DEF CatalogInv, TypeOK, Go, At
<1>2. ~Overtaken' => ~Overtaken
  BY <1>1 DEF Overtaken
<1>3. AllAlone' <=> AllAlone
  BY <1>1 DEF AllAlone
<1>4. CheckMatchesVersion => CheckMatchesVersion'
  BY DEF CheckMatchesVersion
<1>5. \A d \in Command : Upgrading(d)' => version' # 0
  BY <1>1 DEF LadderInv, Upgrading
<1>6. QED
  BY <1>1, <1>2, <1>3, <1>4, <1>5 DEF LadderInv

LEMMA InitLadder == Init => LadderInv
<1> SUFFICES ASSUME Init PROVE LadderInv
  OBVIOUS
<1>1. PICK v \in Installed :
        /\ version = v
        /\ statusCheck = CASE v = 0 -> {} [] v \in 1 .. 7 -> WithRecoverable
                           [] OTHER -> WithInterrupted
        /\ statuses \in SUBSET (statusCheck \cap {"recoverable_failure", "interrupted"})
        /\ cmd = [c \in Command |-> Idle]
  BY DEF Init
<1>2. v \in 0 .. CATALOG_SCHEMA_VERSION
  BY InstalledAssumption
<1>3. \A c \in Command : ~At(c, "batch") /\ ~At(c, "read")
  BY <1>1 DEF Idle, At
<1>4. CheckMatchesVersion
  BY <1>1, <1>2, ChecksDiffer DEF CheckMatchesVersion, CATALOG_SCHEMA_VERSION
<1>5. QED
  BY <1>3, <1>4 DEF LadderInv, Upgrading, AllAlone

LEMMA InstallLadder ==
  ASSUME CatalogInv, LadderInv, NEW c \in Command, InstallCatalog(c)
  PROVE  LadderInv'
<1>1. /\ Go(c, "ended")
      /\ At(c, "idle")
      /\ UNCHANGED statuses
  BY DEF InstallCatalog
<1>2. CASE version = 0 /\ ~InitFails
  <2>1. version' = CATALOG_SCHEMA_VERSION /\ statusCheck' = WithInterrupted
    BY <1>2 DEF InstallCatalog, VersionAfterInit, CatalogInv
  <2>2. \A d \in Command : ~Upgrading(d)
    BY <1>2 DEF LadderInv
  <2>3. \A d \in Command : ~Upgrading(d)'
    BY <1>1, <2>2 DEF CatalogInv, TypeOK, Go, At, Upgrading
  <2>4. CheckMatchesVersion'
    BY <2>1, ChecksDiffer DEF CheckMatchesVersion, CATALOG_SCHEMA_VERSION
  <2>5. QED
    BY <2>3, <2>4 DEF LadderInv, AllAlone, Upgrading
<1>3. CASE version # 0 \/ InitFails
  <2>1. version # 0 => "migrations" \in objects
    <3> SUFFICES ASSUME version # 0 PROVE "migrations" \in objects
      OBVIOUS
    <3>1. 1 \in (1 .. version) \ {6}
      BY DEF CatalogInv, TypeOK, CATALOG_SCHEMA_VERSION
    <3>2. Batch(1).adds \subseteq Provides(version)
      BY <3>1 DEF Provides
    <3>3. "migrations" \in Batch(1).adds
      BY DEF Batch, InitV1
    <3>4. QED
      BY <3>2, <3>3 DEF CatalogInv, VersionMeansObjects
  <2>2. UNCHANGED <<version, statusCheck>>
    BY <1>3, <2>1 DEF InstallCatalog, VersionAfterInit
  <2>3. QED
    BY <1>1, <2>2, SameLadder DEF At
<1>4. QED
  BY <1>2, <1>3

(* A reader that enters the ladder beside others takes their word for the  *)
(* version, and none of them is alone from then on.                        *)
LEMMA ReadLadder ==
  ASSUME CatalogInv, LadderInv, NEW c \in Command, ReadVersion(c)
  PROVE  LadderInv'
<1>1. /\ At(c, "read")
      /\ UNCHANGED <<version, statusCheck, statuses>>
      /\ version \in 1 .. CATALOG_SCHEMA_VERSION
  BY DEF ReadVersion, LadderInv, Upgrading, CatalogInv, TypeOK
<1>2. /\ cmd'[c].pc = IF version < CATALOG_SCHEMA_VERSION THEN "batch" ELSE "work"
      /\ cmd'[c].next = version + 1
      /\ cmd'[c].alone = \A e \in Command \ {c} : ~At(e, "batch")
  BY DEF ReadVersion
<1>3. \A d \in Command \ {c} :
        /\ cmd'[d].pc = cmd[d].pc /\ cmd'[d].next = cmd[d].next
        /\ At(d, "batch") => ~cmd'[d].alone
        /\ ~At(d, "batch") => cmd'[d].alone = cmd[d].alone
  BY DEF ReadVersion, CatalogInv, TypeOK
<1>4. \A d \in Command \ {c} : At(d, "batch")' <=> At(d, "batch")
  BY <1>3 DEF At
<1>5. ~At(c, "batch") /\ ~At(c, "stopped")
  BY <1>1 DEF At
<1>6. \A d \in Command : Upgrading(d)' => version' # 0
  BY <1>1 DEF CATALOG_SCHEMA_VERSION
<1>7. ~Overtaken' => ~Overtaken
  BY <1>3, <1>5 DEF Overtaken, At
<1>8. ASSUME ~Overtaken
      PROVE  /\ \A d \in Command : At(d, "batch")' /\ cmd'[d].alone =>
                  /\ version' = cmd'[d].next - 1
                  /\ \A e \in Command \ {d} : ~At(e, "batch")'
             /\ AllAlone' => CheckMatchesVersion'
             /\ ~AllAlone' /\ "interrupted" \notin statusCheck' =>
                  \E d \in Command : At(d, "batch")' /\ cmd'[d].next <= 8
  <2>1. \A d \in Command : At(d, "batch")' /\ cmd'[d].alone => d = c
    BY <1>3, <1>4
  <2>2. At(c, "batch")' /\ cmd'[c].alone =>
          /\ version' = cmd'[c].next - 1
          /\ \A e \in Command \ {c} : ~At(e, "batch")'
    <3>1. version' = cmd'[c].next - 1
      BY <1>1, <1>2 DEF CATALOG_SCHEMA_VERSION
    <3>2. cmd'[c].alone => \A e \in Command \ {c} : ~At(e, "batch")
      BY <1>2
    <3>3. QED
      BY <1>4, <3>1, <3>2
  <2>3. AllAlone' => AllAlone
    BY <1>3, <1>4, <1>5 DEF AllAlone
  <2>4. CheckMatchesVersion' <=> CheckMatchesVersion
    BY <1>1 DEF CheckMatchesVersion
  <2>5. AllAlone' => CheckMatchesVersion'
    BY <1>8, <2>3, <2>4 DEF LadderInv
  <2>6. ASSUME ~AllAlone', "interrupted" \notin statusCheck'
        PROVE  \E d \in Command : At(d, "batch")' /\ cmd'[d].next <= 8
    <3>1. PICK d \in Command \ {c} : At(d, "batch")
      BY <1>2, <1>4, <2>6 DEF AllAlone
    <3>2. CASE AllAlone
      <4>1. CheckMatchesVersion /\ version = cmd[d].next - 1
        BY <1>8, <3>1, <3>2 DEF LadderInv, AllAlone
      <4>2. version < 8
        BY <1>1, <2>6, <4>1 DEF CheckMatchesVersion, CATALOG_SCHEMA_VERSION
      <4>3. cmd[d].next \in 1 .. CATALOG_SCHEMA_VERSION
        BY <3>1 DEF CatalogInv
      <4>4. cmd[d].next <= 8
        BY <1>1, <4>1, <4>2, <4>3 DEF CATALOG_SCHEMA_VERSION
      <4>5. QED
        BY <1>3, <1>4, <3>1, <4>4
    <3>3. CASE ~AllAlone
      <4>1. PICK e \in Command : At(e, "batch") /\ cmd[e].next <= 8
        BY <1>1, <1>8, <2>6, <3>3 DEF LadderInv
      <4>2. e # c
        BY <1>5, <4>1
      <4>3. QED
        BY <1>3, <1>4, <4>1, <4>2
    <3>4. QED
      BY <3>2, <3>3
  <2>7. QED
    BY <2>1, <2>2, <2>5, <2>6
<1>9. QED
  BY <1>6, <1>7, <1>8 DEF LadderInv

LEMMA RunBatchLadder ==
  ASSUME CatalogInv, LadderInv, NEW c \in Command, RunBatch(c)
  PROVE  LadderInv'
<1> DEFINE k == cmd[c].next
<1>1. /\ At(c, "batch")
      /\ k \in 1 .. CATALOG_SCHEMA_VERSION
      /\ version' = k
      /\ UNCHANGED statuses
  BY DEF RunBatch, RecordedVersion, CatalogInv
<1>2. statusCheck' = IF k \in {1, 3} THEN WithRecoverable
                     ELSE IF k = 8 THEN WithInterrupted ELSE statusCheck
  BY <1>1, BatchChecks DEF RunBatch, WithRecoverable, WithInterrupted
<1>3. /\ cmd'[c].next = k + 1
      /\ cmd'[c].alone = cmd[c].alone
      /\ cmd'[c].pc = IF k = 9 THEN "work" ELSE "batch"
  BY <1>1 DEF RunBatch, NextAfter, CatalogInv, TypeOK, At, CATALOG_SCHEMA_VERSION
<1>4. \A d \in Command \ {c} : cmd'[d] = cmd[d]
  BY DEF RunBatch, CatalogInv, TypeOK
<1>5. \A d \in Command \ {c} : At(d, "batch")' <=> At(d, "batch")
  BY <1>4 DEF At
<1>6. \A d \in Command : Upgrading(d)' => version' # 0
  BY <1>1 DEF CATALOG_SCHEMA_VERSION
<1>7. ~Overtaken' => ~Overtaken
  BY <1>1, <1>4 DEF Overtaken, At
<1>8. ASSUME ~Overtaken, cmd[c].alone
      PROVE  /\ \A d \in Command : At(d, "batch")' /\ cmd'[d].alone =>
                  /\ version' = cmd'[d].next - 1
                  /\ \A e \in Command \ {d} : ~At(e, "batch")'
             /\ AllAlone' /\ CheckMatchesVersion'
  <2>1. version = k - 1 /\ \A d \in Command \ {c} : ~At(d, "batch")
    BY <1>1, <1>8 DEF LadderInv
  <2>2. \A d \in Command \ {c} : ~At(d, "batch")'
    BY <1>5, <2>1
  <2>3. AllAlone /\ AllAlone'
    BY <1>3, <1>8, <2>1, <2>2 DEF AllAlone
  <2>4. CheckMatchesVersion
    BY <1>8, <2>3 DEF LadderInv
  <2>5. CheckMatchesVersion'
    BY <1>1, <1>2, <2>1, <2>4, ChecksDiffer DEF CheckMatchesVersion, CATALOG_SCHEMA_VERSION
  <2>6. version' = cmd'[c].next - 1
    BY <1>1, <1>3 DEF CATALOG_SCHEMA_VERSION
  <2>7. QED
    BY <2>2, <2>3, <2>5, <2>6
<1>9. ASSUME ~Overtaken, ~cmd[c].alone
      PROVE  /\ \A d \in Command : ~(At(d, "batch")' /\ cmd'[d].alone)
             /\ AllAlone' => CheckMatchesVersion'
             /\ ~AllAlone' /\ "interrupted" \notin statusCheck' =>
                  \E d \in Command : At(d, "batch")' /\ cmd'[d].next <= 8
  <2>1. \A d \in Command : At(d, "batch") => ~cmd[d].alone
    BY <1>1, <1>9 DEF LadderInv
  <2>2. \A d \in Command : At(d, "batch")' => ~cmd'[d].alone
    BY <1>3, <1>4, <1>5, <1>9, <2>1
  <2>3. ~AllAlone
    BY <1>1, <1>9 DEF AllAlone
  <2>4. "interrupted" \notin statusCheck =>
          \E d \in Command : At(d, "batch") /\ cmd[d].next <= 8
    BY <1>9, <2>3 DEF LadderInv
  <2>5. k = 9 /\ "interrupted" \notin statusCheck =>
          \E d \in Command : At(d, "batch")' /\ cmd'[d].next <= 8
    BY <1>4, <1>5, <2>4
  <2>6. AllAlone' => k = 9 /\ \A d \in Command : ~At(d, "batch")'
    BY <1>3, <1>9, <2>2 DEF AllAlone, At
  <2>7. AllAlone' => CheckMatchesVersion'
    BY <1>1, <1>2, <2>5, <2>6 DEF CheckMatchesVersion
  <2>8. k <= 7 => At(c, "batch")' /\ cmd'[c].next <= 8
    BY <1>1, <1>3 DEF At, CATALOG_SCHEMA_VERSION
  <2>9. k = 8 => "interrupted" \in statusCheck'
    BY <1>2, ChecksDiffer
  <2>10. k = 9 => statusCheck' = statusCheck
    BY <1>2
  <2>11. k <= 7 \/ k = 8 \/ k = 9
    BY <1>1 DEF CATALOG_SCHEMA_VERSION
  <2>12. QED
    BY <2>2, <2>5, <2>7, <2>8, <2>9, <2>10, <2>11
<1>10. QED
  BY <1>6, <1>7, <1>8, <1>9 DEF LadderInv

(* A command that dies beside another one leaves the ladder overtaken; one *)
(* that was alone leaves what its last batch promised.                     *)
LEMMA StopLadder ==
  ASSUME CatalogInv, LadderInv, NEW c \in Command, Stop(c)
  PROVE  LadderInv'
<1>1. /\ Upgrading(c) /\ Go(c, "stopped")
      /\ UNCHANGED <<version, statusCheck, statuses>>
  BY DEF Stop
<1>2. CASE At(c, "read")
  BY <1>1, <1>2, SameLadder DEF At
<1>3. CASE At(c, "batch")
  <2>1. /\ \A d \in Command : cmd'[d].alone = cmd[d].alone
        /\ \A d \in Command \ {c} : cmd'[d] = cmd[d]
        /\ At(c, "stopped")'
    BY <1>1 DEF Go, At, CatalogInv, TypeOK
  <2>2. ~Overtaken' => ~Overtaken /\ cmd[c].alone
    BY <1>3, <2>1 DEF Overtaken, At
  <2>3. \A d \in Command : Upgrading(d)' => version' # 0
    BY <1>1, <2>1 DEF LadderInv, Upgrading, At
  <2>4. ASSUME ~Overtaken, cmd[c].alone
        PROVE  (\A d \in Command : ~At(d, "batch")') /\ CheckMatchesVersion'
    <3>1. \A d \in Command \ {c} : ~At(d, "batch")
      BY <1>3, <2>4 DEF LadderInv
    <3>2. AllAlone
      BY <2>4, <3>1 DEF AllAlone
    <3>3. CheckMatchesVersion
      BY <2>4, <3>2 DEF LadderInv
    <3>4. QED
      BY <1>1, <2>1, <3>1, <3>3 DEF CheckMatchesVersion, At
  <2>5. QED
    BY <2>2, <2>3, <2>4 DEF LadderInv, AllAlone
<1>4. QED
  BY <1>1, <1>2, <1>3 DEF Upgrading

LEMMA NextLadder == CatalogInv /\ LadderInv /\ [Next]_vars => LadderInv'
<1> SUFFICES ASSUME CatalogInv, LadderInv, [Next]_vars PROVE LadderInv'
  OBVIOUS
<1>1. ASSUME NEW c \in Command, InstallCatalog(c) PROVE LadderInv'
  BY <1>1, InstallLadder
<1>2. ASSUME NEW c \in Command, FindSchema(c) PROVE LadderInv'
  BY <1>2, SameLadder DEF FindSchema, At
<1>3. ASSUME NEW c \in Command, ReadVersion(c) PROVE LadderInv'
  BY <1>3, ReadLadder
<1>4. ASSUME NEW c \in Command, RunBatch(c) PROVE LadderInv'
  BY <1>4, RunBatchLadder
<1>5. ASSUME NEW c \in Command, Stop(c) PROVE LadderInv'
  BY <1>5, StopLadder
<1>6. ASSUME NEW c \in Command, Work(c) PROVE LadderInv'
  <2>1. "interrupted" \in statuses' => "interrupted" \in statuses \cup statusCheck
    BY <1>6 DEF Work
  <2>2. QED
    BY <1>6, <2>1, SameLadder DEF Work, At
<1>7. CASE UNCHANGED vars
  BY <1>7 DEF vars, LadderInv, Overtaken, AllAlone, CheckMatchesVersion, Upgrading, At
<1>8. QED
  BY <1>1, <1>2, <1>3, <1>4, <1>5, <1>6, <1>7 DEF Next

LEMMA LadderInvariant == Spec => [](CatalogInv /\ LadderInv)
<1>1. Init => LadderInv
  BY InitLadder
<1>2. CatalogInv /\ LadderInv /\ [Next]_vars => LadderInv'
  BY NextLadder
<1>3. QED
  BY <1>1, <1>2, CatalogInvariant, PTL DEF Spec

(* Once no command is between two batches, none overtaken, nothing tells a *)
(* command in the ladder from one alone there.                             *)
LEMMA SettledMatches == LadderInv /\ Settled => CheckMatchesVersion
  BY DEF LadderInv, Settled, Overtaken, AllAlone, Upgrading

(* catalog.rs:804: after any number of upgrades side by side, the check    *)
(* that batch 3 puts in place does not outlive them.                       *)
THEOREM CurrentAdmits == Spec => []CurrentAdmitsInterrupted
<1>1. CatalogInv /\ LadderInv => CurrentAdmitsInterrupted
  BY SettledMatches DEF CurrentAdmitsInterrupted, CheckMatchesVersion, CATALOG_SCHEMA_VERSION
<1>2. QED
  BY <1>1, LadderInvariant, PTL

(* What batch k needs is what the batches below it add.                    *)
LEMMA BatchNeeds ==
  ASSUME NEW k \in 2 .. CATALOG_SCHEMA_VERSION
  PROVE  Batch(k).needs \subseteq Provides(k - 1)
<1> DEFINE below == (1 .. k - 1) \ {6}
<1>1. \A j \in below : Batch(j).adds \subseteq Provides(k - 1)
  BY DEF Provides
<1>2. /\ k >= 2 => 1 \in below
      /\ k >= 3 => 2 \in below
      /\ k >= 6 => 5 \in below
      /\ k >= 8 => 7 \in below
  BY DEF CATALOG_SCHEMA_VERSION
<1>3. {"dag_versions", "migrations", "locks"} \subseteq Provides(k - 1)
  BY <1>1, <1>2 DEF Batch, InitV1
<1>4. k >= 3 => {"ddl_log", "blue_green_deployments"} \subseteq Provides(k - 1)
  BY <1>1, <1>2 DEF Batch, MigrateV1ToV2
<1>5. k >= 6 => "migration_steps" \in Provides(k - 1)
  BY <1>1, <1>2 DEF Batch, MigrateV4ToV5
<1>6. k >= 8 => "ddl_log.migration_id" \in Provides(k - 1)
  BY <1>1, <1>2 DEF Batch, MigrateV6ToV7
<1>7. k \in {2, 3, 4, 5, 6, 7, 8, 9}
  BY DEF CATALOG_SCHEMA_VERSION
<1> HIDE DEF below
<1>8. CASE k \in {2, 3, 4, 5, 6}
  BY <1>3, <1>8 DEF Batch, MigrateV1ToV2, MigrateV2ToV3, MigrateV3ToV4, MigrateV4ToV5, MigrateV5ToV6
<1>9. CASE k \in {7, 8, 9}
  BY <1>3, <1>4, <1>5, <1>6, <1>9 DEF Batch, MigrateV6ToV7, MigrateV7ToV8, MigrateV8ToV9
<1>10. QED
  BY <1>7, <1>8, <1>9

(* catalog.rs:804: a catalog a crash left between two batches is never     *)
(* wedged: the next command can go on from the row it finds.               *)
THEOREM LadderAlwaysContinues == Spec => []LadderContinues
<1>1. CatalogInv /\ LadderInv => LadderContinues
  <2> SUFFICES ASSUME CatalogInv, LadderInv, Settled,
                      version \in 1 .. CATALOG_SCHEMA_VERSION - 1
               PROVE  BatchApplies(Batch(version + 1))
    BY DEF LadderContinues
  <2> DEFINE k == version + 1
  <2>1. k \in 2 .. CATALOG_SCHEMA_VERSION /\ k - 1 = version
    BY DEF CATALOG_SCHEMA_VERSION
  <2>2. k \in 1 .. CATALOG_SCHEMA_VERSION
    BY <2>1
  <2>3. Batch(k).needs \subseteq objects
    BY <2>1, BatchNeeds DEF CatalogInv, VersionMeansObjects
  <2>4. statuses \subseteq {"recoverable_failure", "interrupted"}
    BY DEF CatalogInv, TypeOK
  <2>5. k = 3 => "interrupted" \notin statuses
    BY SettledMatches DEF CheckMatchesVersion
  <2>6. /\ {"recoverable_failure", "interrupted"} \subseteq WithInterrupted
        /\ "recoverable_failure" \in WithRecoverable
    BY DEF WithInterrupted, WithRecoverable
  <2>7. Batch(k).check # {} => statuses \subseteq Batch(k).check
    BY <2>1, <2>2, <2>4, <2>5, <2>6, BatchChecks
  <2>8. QED
    BY <2>3, <2>7 DEF BatchApplies
<1>2. QED
  BY <1>1, LadderInvariant, PTL

=============================================================================
