SPECIFICATION Spec
CONSTANTS
  Cells = 3
  Ceiling = 8
  None = None
  Erased = Erased
  Torn = Torn
INVARIANT TypeOK
PROPERTIES
  RunOnce
  ImplementsGuard
CHECK_DEADLOCK FALSE
