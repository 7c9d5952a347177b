SPECIFICATION FairSpec
CONSTANTS
  Clients = {c1}
  Users = {u1}
  Fingers = {f1}
  Capacity = 1
  Procs = {p1, p2}
  Methods <- AllMethods
  MaxRetries = 2
  MaxEpoch = 1
  EnrollProgress <- EnrollLines
  VerifyProgress <- VerifyLines
  SensorFaults = TRUE
  None = None
PROPERTIES CallsReturn ActionsEnd
\* Every client may leave the bus for good: then nothing happens any more.
CHECK_DEADLOCK FALSE
