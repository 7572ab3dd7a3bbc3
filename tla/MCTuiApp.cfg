SPECIFICATION Spec
CONSTANTS
  evaluation = evaluation
  executor = executor
  Idle = Idle
  Tasks <- MCTasks
  Lines <- MCLines
  TuiCap = 2
  MaxOpportunities = 1
  MaxSparkline = 2
  MaxBundles = 1
  MaxLogs = 3
  Heights = {0, 1, 2}
  MouseEnabled = TRUE
  MaxEmitted = 4
  MaxInputs = 2
INVARIANTS
  TypeOK
  RecordsAgree
  LineAfterRecord
  PageFilled
PROPERTIES
  PlaceKept
  ImplementsFeed
