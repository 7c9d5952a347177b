SPECIFICATION Spec
CONSTANTS
  Callers = {c1, c2}
  Prints = {k1, k2}
  Capacity = 2
  MaxFaults = 1
  None = None
  Blank = Blank
  Garbage = Garbage
INVARIANT LabelsTrue
CHECK_DEADLOCK FALSE
