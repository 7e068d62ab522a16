SPECIFICATION LegacySpec
CONSTANTS
  NRun = 2
  MaxAttempt = 2
  MaxAutomatic = 2
  SessionOf <- TwoSessions
CONSTRAINT OneRunOrTwoPlain
PROPERTY WaitsForAnAnswer
CHECK_DEADLOCK FALSE
