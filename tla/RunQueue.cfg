SPECIFICATION FairSpec
CONSTANTS
  NTurn = 2
  NItem = 2
  SessionOf <- TwoSessions
  Cron = {c1, c2}
  Batch = 1
  Removable = {2}
INVARIANT TypeOK
INVARIANT SentOnce
INVARIANT SentInOrder
PROPERTY SentUnlessUnwritable
CHECK_DEADLOCK FALSE
