SPECIFICATION Spec
CONSTANTS
  NTurn = 1
  NItem = 2
  SessionOf <- OneSession
  Cron = {c1}
  Batch = 1
  Removable = {}
PROPERTY OnlyQueuedIsSent
CHECK_DEADLOCK FALSE
