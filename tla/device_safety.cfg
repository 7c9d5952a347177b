SPECIFICATION Spec
CONSTANTS
  Clients = {c1}
  Users = {u1, u2}
  Fingers = {f1, f2}
  Capacity = 2
  Procs = {p1, p2}
  Methods <- AllMethods
  MaxRetries = 0
  MaxEpoch = 3
  EnrollProgress <- NoLines
  VerifyProgress <- NoLines
  SensorFaults = TRUE
  None = None
INVARIANTS TypeOK OneCaptureQueued ActionBacked VerdictsIsolated SlotsUnique RowsOwnTemplates MatchIsOwn
PROPERTY ImplementsOperations
SYMMETRY Symmetry
\* Every client may leave the bus for good: then nothing happens any more.
CHECK_DEADLOCK FALSE
