SPECIFICATION Spec
CONSTANTS
  Absent = Absent
  Branch = {"fix-a", "fix/a"}
  SchemaOf <- MCSchemaOf
  Production <- MCProduction
  Files <- MCFiles
  Session = {"s1", "s2"}
  MaxRuns = 3
INVARIANTS RecreatedIsCurrent PreviewsReadPreviews FailuresAreExplained SubgraphIsTransitive
CHECK_DEADLOCK FALSE
