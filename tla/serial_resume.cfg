SPECIFICATION Spec
CONSTANTS
  a = a
  b = b
  c = c
  r1 = r1
  r2 = r2
  r3 = r3
  None = None
  Absent = Absent
  NoRun = NoRun
  Table = {a, c}
  Query <- MCQuery
  Schedule = {"1m"}
  CdcMode = {}
  FileOrder <- AcOrder
  NameOrder <- AcOrder
  Hooks = {"pre"}
  PlanFor <- BuildPlan
  Run = {r1, r2, r3}
  Desired <- ToAfter
  InitialTables <- Before
  InitialPolicies = {a}
  Invocation <- AnyFile
  Faults = {"crash", "sql"}
  MaxActive = 1
SYMMETRY RunSymmetry
INVARIANTS TypeOK CheckpointIsDone PausedDuringDdl
PROPERTIES CommittedIsLive SnapshotIsLive
CHECK_DEADLOCK FALSE
