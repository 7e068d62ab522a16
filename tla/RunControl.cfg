SPECIFICATION Spec
CONSTANTS
  NRun = 2
  MaxAttempt = 2
  MaxAutomatic = 2
  SessionOf <- OneSession
CONSTRAINT LaterRunIsPlain
INVARIANT TypeOK
INVARIANT LaunchAfterPublish
INVARIANT ReapIsOver
INVARIANT DueHasJob
INVARIANT OneActiveRun
PROPERTY TerminalIsFinal
PROPERTY StopIsSticky
PROPERTY OnlyWantedRetries
CHECK_DEADLOCK FALSE
