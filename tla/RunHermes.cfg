SPECIFICATION HermesSpec
CONSTANTS
  NRun = 2
  MaxAttempt = 2
  MaxAutomatic = 2
  SessionOf <- TwoSessions
CONSTRAINT OneRunOrTwoPlain
INVARIANT HermesTypeOK
INVARIANT ProfileIsExclusive
PROPERTY ImplementsControl
PROPERTY OutcomeIsOwn
CHECK_DEADLOCK FALSE
