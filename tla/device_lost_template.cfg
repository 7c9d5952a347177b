SPECIFICATION Spec
CONSTANTS
  Clients = {c1}
  Users = {u1}
  Fingers = {f1}
  Capacity = 2
  Procs = {p1, p2}
  Methods <- RegistryMethods
  MaxRetries = 0
  MaxEpoch = 2
  EnrollProgress <- NoLines
  VerifyProgress <- NoLines
  SensorFaults = FALSE
  None = None
INVARIANTS RowsBacked
\* Every client may leave the bus for good: then nothing happens any more.
CHECK_DEADLOCK FALSE
