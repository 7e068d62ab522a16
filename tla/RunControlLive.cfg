SPECIFICATION FairSpec
CONSTANTS
  NRun = 1
  MaxAttempt = 2
  MaxAutomatic = 2
  SessionOf <- OneSession
CONSTRAINT FirstIsHandedOff
PROPERTY StopEnds
PROPERTY UndrivenEnds
PROPERTY RecoveryResolves
CHECK_DEADLOCK FALSE
