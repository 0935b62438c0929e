CONSTANTS
  MetricCount = 3
  Lags = {1, 3}
  MaxEdges = 6
  MaxRows = 3
  Top = 2
CHECK_DEADLOCK FALSE
SPECIFICATION Spec
INVARIANTS
  SchemaIsJudged
  LagsAreMinimal
  SuppressionIsRooted
PROPERTY
  PrefixIsStable
