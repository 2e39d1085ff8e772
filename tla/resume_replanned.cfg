SPECIFICATION Spec
CONSTANTS
  a = a
  b = b
  c = c
  r1 = r1
  r2 = r2
  r3 = r3
  None = None
  Absent = Absent
  NoRun = NoRun
  Table = {a, b}
  Query <- MCQuery
  Schedule = {"1m"}
  CdcMode = {}
  FileOrder <- TwoOrder
  NameOrder <- TwoOrder
  Hooks = {}
  PlanFor <- BuildPlan
  Run = {r1, r2}
  Desired <- ToAfter
  InitialTables <- Before
  InitialPolicies = {a}
  Invocation <- Replanned
  Faults = {"crash"}
  MaxActive = 1
PROPERTY CommittedIsLive
CHECK_DEADLOCK FALSE
