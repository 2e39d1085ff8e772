SPECIFICATION Spec
CONSTANTS
  a = a
  b = b
  s1 = s1
  s2 = s2
  c1 = c1
  c2 = c2
  None = None
  Absent = Absent
  Table = {a, b}
  Query <- MCQuery
  Schedule = {"1m"}
  CdcMode = {}
  FileOrder <- TwoFiles
  NameOrder <- TwoNames
  Hooks = {}
  Source = {s1, s2}
  Consumer = {c1, c2}
  Place <- TwoPlaces
  PlanFor <- ChangingSteps
  SourcesRead <- MCSourcesRead
  View <- MCView
  ShortName <- MCShortName
  Desired <- SourcesOrViews
  Faults = {"sql", "registry"}
INVARIANTS ReadersFollowSources ViewsFollowFiles NoOrphanRows
CHECK_DEADLOCK FALSE
