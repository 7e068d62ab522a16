SPECIFICATION Spec
CONSTANTS
  Worker = {w1, w2, w3}
  Job = {j1}
  Pausable = {}
  None = None
INVARIANT LeaseIsExclusive
