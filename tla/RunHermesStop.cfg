SPECIFICATION HermesSpec
CONSTANTS
  NRun = 2
  MaxAttempt = 2
  MaxAutomatic = 2
  SessionOf <- TwoSessions
CONSTRAINT OneRunOrTwoPlain
PROPERTY StopIsOwn
CHECK_DEADLOCK FALSE
