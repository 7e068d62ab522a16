SPECIFICATION FairSpec
CONSTANTS
  Worker = {w1, w2}
  Job = {j1, j2}
  Pausable = {j2}
  None = None
INVARIANT TypeOK
INVARIANT PointerIffQueued
PROPERTY ImplementsPromise
PROPERTY EventuallyDone
