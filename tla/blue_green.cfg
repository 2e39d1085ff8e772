SPECIFICATION FairSpec
CONSTANTS
  Table <- Tables
  Order <- TopologicalOrder
  Reads <- DailyReadsTotals
  Rev <- Revisions
  Base <- LegacyOnly
  InPublic <- Tables
  Desired <- Edits
  Faults <- AllFaults
  MaxRuns = 3
  MaxFaults = 2
  OtherVersions = {1}
  MaxVersion = 5
  Absent = Absent
  totals = totals
  daily = daily
  legacy = legacy
  r0 = r0
  r1 = r1
  r2 = r2
INVARIANTS TypeOK SuccessIsSwitched
PROPERTIES SwapsConverged RowFollowsViews DeploymentEnds
CHECK_DEADLOCK FALSE
