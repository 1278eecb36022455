SPECIFICATION SuiteFair
CONSTANTS
  NSteps = 2
  RetryAttempts = 2
  Starts = {0, 1}
  DirectCancels = FALSE
  ReadFailures = TRUE
  MaxGen = 2
PROPERTIES Settles CancelHonoured ComesToRest
CHECK_DEADLOCK FALSE
