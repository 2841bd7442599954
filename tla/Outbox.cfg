\* Two replicas dispatch two events; a fair timer, and any failure.
SPECIFICATION FairSpec
CHECK_DEADLOCK FALSE
CONSTANTS
  Replicas = {r1, r2}
  Events <- TwoEvents
  Tokens = {t1, t2, t3, t4}
  None = None
  DispatchLimit = 2
  ColumnMaxAttempts = 2
  MaxRequeues = 1
ACTION_CONSTRAINTS
  TokensInTurn
  RequeuedAlone
INVARIANTS
  TypeOK
  SentWasPublished
  DuplicatesAreBounded
PROPERTIES
  LeaseIsRespected
  ImplementsPromise
  EveryEventSettles
