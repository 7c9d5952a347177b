SPECIFICATION FairSpec
CONSTANTS
  Clients = {c1, c2}
  Users = {u1, u2}
  Fingers = {f1}
  Capacity = 2
  Procs = {p1}
  Methods <- CaptureMethods
  MaxRetries = 0
  MaxEpoch = 1
  EnrollProgress <- NoLines
  VerifyProgress <- NoLines
  SensorFaults = TRUE
  None = None
PROPERTIES DeadClaimsReleased
\* Every client may leave the bus for good: then nothing happens any more.
CHECK_DEADLOCK FALSE
