SPECIFICATION FairSpec
CONSTANTS
  a = a
  b = b
  c = c
  r1 = r1
  r2 = r2
  r3 = r3
  None = None
  Absent = Absent
  NoRun = NoRun
  Table = {a}
  Query <- MCQuery
  Schedule = {"1m"}
  CdcMode = {}
  FileOrder <- OneOrder
  NameOrder <- OneOrder
  Hooks = {}
  PlanFor <- BuildPlan
  Run = {r1, r2}
  Desired <- ToJustA
  InitialTables <- Nothing
  InitialPolicies = {}
  Invocation <- FreshOrForced
  Faults = {"crash", "failover"}
  MaxActive = 2
INVARIANTS ReleasedUnlessCrashed NoPauseLeak
PROPERTIES RunTerminates LeaseRecovers
CHECK_DEADLOCK FALSE
