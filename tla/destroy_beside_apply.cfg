SPECIFICATION Spec
CONSTANTS
  t = t
  u = u
  p = p
  q = q
  None = None
  Absent = Absent
  Table = {t, u}
  Query <- MCQuery
  Schedule = {"1m"}
  CdcMode = {}
  FileOrder <- TwoNames
  NameOrder <- TwoNames
  Hooks = {}
  Project = {p, q}
  Session = {s1, s2}
  s1 = s1
  s2 = s2
  Ways <- ApplyOrPromote
  Files <- TwoProjects
  PlanFor <- ChangingSteps
  DropOrder <- LastNameFirst
  Day = 2
  Window <- AcrossMidnight
  TzOffset = 1
  MaxCommands = 4
  MaxFaults = 1

PROPERTIES MutationsAreSerialized
SYMMETRY Shells
CHECK_DEADLOCK FALSE
