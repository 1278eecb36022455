SPECIFICATION SuiteSpec
CONSTANTS
  NSteps = 2
  RetryAttempts = 2
  Starts = {0, 1}
  DirectCancels = TRUE
  ReadFailures = TRUE
  MaxGen = 3
INVARIANTS WorkflowSound  ReviewSound
PROPERTY FreshStartGrounded
CHECK_DEADLOCK FALSE
