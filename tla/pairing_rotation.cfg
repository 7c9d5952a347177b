SPECIFICATION RotationSpec
CONSTANTS
  Keys = { k1, k2 }
  Pcrs = { p7 }
  Values = { low, high }
  Ceiling = 3
  None = None
  Garbled = Garbled
  NoPolicy = NoPolicy
  Blank = Blank
  Torn = Torn
  Failing = { }
SYMMETRY Symmetry
INVARIANT RotationWorks
