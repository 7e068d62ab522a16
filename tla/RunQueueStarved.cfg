SPECIFICATION FairSpec
CONSTANTS
  NTurn = 2
  NItem = 3
  SessionOf <- TwoSessions
  Cron = {c1}
  Batch = 1
  Removable = {1}
PROPERTY EventuallySent
CHECK_DEADLOCK FALSE
