SPECIFICATION Spec
CONSTANTS
  a = a
  b = b
  d = d
  None = None
  Absent = Absent
  Table = {a, b, d}
  Query <- MCQuery
  Schedule = {"1m", "5m"}
  CdcMode = {"wal"}
  FileOrder <- ThreeFiles
  NameOrder <- ThreeNames
  Hooks = {"pre", "post"}
  Desired <- ThreeTablesOrCycle
INVARIANTS RefusesCycles CreatedOnExistingTables ApplyBringsQueries SettlesInThree DiamondsArePromoted
