SPECIFICATION Spec
CONSTANTS
  a = a
  b = b
  c = c
  r1 = r1
  r2 = r2
  r3 = r3
  None = None
  Absent = Absent
  NoRun = NoRun
  Table = {a}
  Query <- MCQuery
  Schedule = {"1m"}
  CdcMode = {}
  FileOrder <- OneOrder
  NameOrder <- OneOrder
  Hooks = {}
  PlanFor <- BuildPlan
  Run = {r1, r2}
  Desired <- ToJustA
  InitialTables <- Nothing
  InitialPolicies = {}
  Invocation <- FreshOrResumed
  Faults = {}
  MaxActive = 2
PROPERTY TablesChangeUnderLease
CHECK_DEADLOCK FALSE
