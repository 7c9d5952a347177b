SPECIFICATION Spec
CONSTANTS
  Callers = {c1}
  Prints = {k1, k2, k3}
  Capacity = 2
  MaxFaults = 2
  None = None
  Blank = Blank
  Garbage = Garbage
INVARIANTS
  TypeOK
  BootReads
  LabelsTrue
PROPERTIES
  ImplementsAtomic
