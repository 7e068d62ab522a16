SPECIFICATION WorkspaceSpec
CONSTANTS
  a = a
  b = b
  c = c
  NoMember = NoMember
  Member = {a, b, c}
  Requester = a
  Admin = {a}
  Owner = {}
  Quorum <- TwoSteps
  Reviewer <- Reviewers
  Parallel = FALSE
  PreventSelfReview = TRUE
  Effect = "waiting"
  MaxRevision = 2
  Recipient = {x}
  Worker = {w1, w2}
  NoMail = NoMail
  Blockable = {x}
  MaxAttempt = 2
  MaxCrash = 1
  ModelCall = {k1, k2}
  TokenCap = 2
  CallCap = 2
  RetryCap = 1
  MaxBound = 2
  Request = {r1, r2}
  StoreAttempts = 3
  MaxToken = 4
  hw = hw
  s1 = s1
  c1 = c1
  Seat = {c1, c2}
  Sender = {w1, w2}
  MaxInvitation = 2
  Person = {a, b, c}
  Preparer = a
  EffectKind = {"payment"}
  SamePerson = FALSE
  MaxNeeded = 2
  Hub = {hw}
  Socket = {s1}
  HubOf <- Hubs
  Window = 2
  MaxTime = 3
  Reconciles = TRUE
  PageSize = 1
  MaxPages = 2
  PollAfterFailures = 2
  MaxEvent = 3
  MaxSocket = 3
  MaxFrames = 1
INVARIANT WorkspaceTypeOK
INVARIANT NotSentTwice
INVARIANT ContinuesOnce
INVARIANT WithinBudget
INVARIANT OneRunPerPlan
INVARIANT SpentOnce
INVARIANT RemovalTakesEffect
INVARIANT NothingSkipped
INVARIANT InvitedOnceUnlessMisled
INVARIANT CapacityIsHeld
PROPERTY ApprovedByQuorum
PROPERTY OutcomesStand
PROPERTY SendingResolves
PROPERTY DisconnectStands
PROPERTY TakesEnoughPeople
CONSTRAINT Bounds
CHECK_DEADLOCK FALSE
