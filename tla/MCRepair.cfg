CONSTANTS
  Launches = 3
  Estimate = 2
  Limit = 5
  Crashes = 1
  Cancels = 1
  JointHost <- TwoFiles
  PatientHost <- OneFile
SPECIFICATION SuiteSpec
INVARIANTS  SessionSound  RepairLoopSound
PROPERTY CanceledStays
CHECK_DEADLOCK FALSE
