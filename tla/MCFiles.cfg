\* Workers that overlap or not, every fault.
SPECIFICATION Spec
CONSTANTS
  v1 = v1
  v2 = v2
  d1 = d1
  d2 = d2
  w1 = w1
  w2 = w2
  w3 = w3
  Void <- MCVoid
  Dir <- MCDir
  Namings <- MCNamings
  Worker <- MCWorker
  VoidOf <- MCVoidOf
  Base = {f}
  Content = {c1, c2}
  REL = REL
  NONE = NONE
  MaxRows = 2
  CreatorReads = {"creator", "garbage"}
  Faults = {"kill", "late", "select", "stmt"}
SYMMETRY Symmetry
INVARIANTS TypeOK OneRowPerName AcknowledgedIsKept
PROPERTIES KeptInTheirSpace OwnersChange
