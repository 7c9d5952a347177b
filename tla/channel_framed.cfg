SPECIFICATION FairSpec
CONSTANTS
  Requests = {e1, o1}
  Enrolls = {e1}
  Ceiling = 3
  MaxPings = 2
  ReopenAttempts = 2
  MaxLines = 2
  MaxProgress = 1
  MaxFaults = 2
  None = None
  Failed = Failed
  Stray = Stray
INVARIANTS
  TypeOK
  StartsBounded
PROPERTIES
  ReplyIsOwn
  FramesAccepted
  CountersFresh
  RequestsAnswered
  ImplementsCalls
  NanoIsGuard
CHECK_DEADLOCK FALSE
