SPECIFICATION Spec
CONSTANTS
  c1 = c1
  c2 = c2
  c3 = c3
  Command = {c1, c2, c3}
  Installed <- AnyVersion
SYMMETRY CommandSymmetry
INVARIANTS VersionMeansObjects WorksOnCurrentCatalog CurrentAdmitsInterrupted LadderContinues
CHECK_DEADLOCK FALSE
