\* Two runs on one directory, one of them with refetch, whose calls may overlap,
\* fail and be killed anywhere.
SPECIFICATION Spec
CONSTANTS
  w1 = w1
  w2 = w2
  None = None
  Keys = {k1, k2}
  Writers = {w1, w2}
  Refetch <- OneOfEach
  Faults = {"io", "remove", "stat", "crash"}
  MaxCalls = 3
SYMMETRY KeySymmetry
INVARIANT
  NoTempLeft
PROPERTIES
  KeepsExisting
  ImplementsDisk
