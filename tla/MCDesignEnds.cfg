SPECIFICATION SuiteFair
CONSTANTS
  NoPin = NoPin
  Nothing = Nothing
  Requests = {q1, q2}
  Failures = 2
INVARIANT SandboxSound
PROPERTY DesignEnds
CHECK_DEADLOCK FALSE
